---- MODULE Spec2Model ----
(***************************************************************************)
(* Octofer: webhook verification / classification / dispatch pipeline and  *)
(* the installation-token cache of the GitHub client.                      *)
(***************************************************************************)
EXTENDS Integers, Sequences, FiniteSets, TLC

VARIABLES
    handlers,               \* AppState.handlers: event key -> Vec<EventHandlerFn>
    nextHandler,            \* serial number of the next registered closure
    writer,                 \* the `on` call suspended in handlers.write().await
    req,                    \* per request slot: position in the axum stack
    installation_clients,   \* GitHubClient.installation_clients
    now,                    \* Utc::now(), in minutes
    call,                   \* per caller: position in installation_client
    tokensMinted,           \* remote side: number of tokens issued so far
    testHandlers,           \* TestApp.handlers: event type -> Vec<TestEventHandler>
    testRun,                \* the TestApp::handle_event call under way
    probe,                  \* one application of verify_hmac_sha256
    loaded,                 \* one application of GitHubConfig::new
    mock,                   \* a MockGitHubClient: calls, responses, last answer
    preClear                \* history: tokens a call held, not yet written,
                            \* when a clear covering its id completed, and
                            \* which are still awaiting the write or cached

webhookVars == <<handlers, nextHandler, writer, req>>
cacheVars == <<installation_clients, now, call, tokensMinted, preClear>>
testVars == <<testHandlers, testRun>>
unitVars == <<probe, loaded, mock>>
vars == <<handlers, nextHandler, writer, req, installation_clients, now, call, tokensMinted,
          preClear, testHandlers, testRun, probe, loaded, mock>>

-----------------------------------------------------------------------------
(* Option<T> as a sequence of length at most one *)
None == <<>>
Some(x) == <<x>>
IsSome(o) == o # <<>>
Unwrap(o) == o[1]

-----------------------------------------------------------------------------
(* Bounds of the model *)
MaxHandlers == 3

(* HTTP status codes *)
StatusOK == 200
StatusBadRequest == 400
StatusUnauthorized == 401
StatusInternalServerError == 500

\* request slots of the server
Reqs == {1, 2}

-----------------------------------------------------------------------------
(* Event kinds and registry keys *)

UNDEFINED_EVENT_KIND == "undefined"

\* the event names the classifier knows (two of the dozens)
KnownEventTypes == {"issues", "push"}

\* serde_json::Value::String(s).to_string() is the JSON text of s
JsonString(s) == "\"" \o s \o "\""

\* SerdeToString for WebhookEventType: serde_json::to_value(self) then to_string()
SerdeToString(kind) == JsonString(kind.name)

\* Context::kind
ContextKind(ctx) ==
    IF IsSome(ctx.event) THEN SerdeToString(Unwrap(ctx.event).kind)
    ELSE UNDEFINED_EVENT_KIND

\* the keys callers register under: WebhookServer::on("issues", ..) directly,
\* and Octofer::on_issue / on_push, which pass WebhookEventType::X.to_string()
RegistrationKeys == {"issues"} \cup {JsonString(n) : n \in KnownEventTypes}

-----------------------------------------------------------------------------
(* Signature verification *)

Secret == "development-secret"
OtherSecret == "attacker-secret"

\* HMAC-SHA256 as an ideal MAC: the digest determines key and message
HmacSha256(secret, payload) == <<secret, payload>>

VerifyOk == "ok"
ErrPrefix == "Signature must start with 'sha256='"
ErrHex == "Failed to decode hex signature"
ErrMismatch == "HMAC signature verification failed"

\* variant: the digest comparison is left out
verify_hmac_sha256_NoCompare(signature, payload, secret) ==
    IF signature.prefix # "sha256=" THEN ErrPrefix
    ELSE IF ~signature.hex THEN ErrHex
    ELSE VerifyOk

\* variant: only the first two bytes of the payload are digested
verify_hmac_sha256_Truncated(signature, payload, secret) ==
    IF signature.prefix # "sha256=" THEN ErrPrefix
    ELSE IF ~signature.hex THEN ErrHex
    ELSE IF signature.bytes =
              HmacSha256(secret, SubSeq(payload, 1, IF Len(payload) < 2 THEN Len(payload) ELSE 2))
         THEN VerifyOk
    ELSE ErrMismatch

\* a signature header text is prefix ++ rest; rest is hex of `bytes` when hex
verify_hmac_sha256(signature, payload, secret) ==
    IF signature.prefix # "sha256=" THEN ErrPrefix
    ELSE IF ~signature.hex THEN ErrHex
    ELSE IF signature.bytes = HmacSha256(secret, payload) THEN VerifyOk
    ELSE ErrMismatch

\* the header GitHub computes for a body under a secret: "sha256=" followed
\* by hex::encode of the digest
SignatureHeader(secret, body) ==
    [prefix |-> "sha256=", hex |-> TRUE, bytes |-> HmacSha256(secret, body)]

\* bodies of up to MaxLen bytes
MaxLen == 3
ProbeBytes == {0, 1, 2}
ProbeBodies == UNION {[1..n -> ProbeBytes] : n \in 0..MaxLen}

\* the bodies that differ from body in exactly one byte
SingleByteMutations(body) ==
    {other \in [1..Len(body) -> ProbeBytes] :
        Cardinality({i \in 1..Len(body) : other[i] # body[i]}) = 1}

IdleProbe ==
    [pc |-> "idle", body |-> <<>>, secret |-> "", other |-> <<>>,
     same |-> "", diff |-> ""]

\* a body, a secret and a single-byte mutation of the body
ProbeInputs ==
    {[IdleProbe EXCEPT !.pc = "input", !.body = b, !.secret = k, !.other = o] :
        b \in ProbeBodies \ {<<>>}, k \in {Secret, OtherSecret}, o \in ProbeBodies}

\* the header of the body under the secret is verified against the body and
\* against the mutated body
ApplyVerify ==
    /\ probe.pc = "input"
    /\ LET signature == SignatureHeader(probe.secret, probe.body)
       IN  probe' = [probe EXCEPT
                        !.pc = "applied",
                        !.same = verify_hmac_sha256(signature, probe.body, probe.secret),
                        !.diff = verify_hmac_sha256(signature, probe.other, probe.secret)]
    /\ UNCHANGED webhookVars
    /\ UNCHANGED cacheVars
    /\ UNCHANGED testVars
    /\ UNCHANGED <<loaded, mock>>

-----------------------------------------------------------------------------
(* MockGitHubClient *)

MaxCalls == 3

IdleMock == [calls |-> <<>>, responses |-> <<>>, last |-> None]

\* the mock API methods: the verb, the path format!()ed from the arguments,
\* the request body and the built-in answer of each
MockRequest(api, repo, issue_number, text) ==
    LET issue == "/repos/" \o repo \o "/issues/" \o ToString(issue_number)
    IN  CASE api = "create_issue_comment" ->
                [method |-> "POST", path |-> issue \o "/comments",
                 body |-> Some([body |-> text]),
                 default |-> [builtin |-> TRUE, v |-> <<"comment", text>>]]
          [] api = "update_issue" ->
                [method |-> "PATCH", path |-> issue,
                 body |-> Some([title |-> text]),
                 default |-> [builtin |-> TRUE, v |-> <<"issue", issue_number, text>>]]
          [] api = "add_labels_to_issue" ->
                [method |-> "POST", path |-> issue \o "/labels",
                 body |-> Some([labels |-> <<text>>]),
                 default |-> [builtin |-> TRUE, v |-> <<"labels", text>>]]
          [] api = "get_repository" ->
                [method |-> "GET", path |-> "/repos/" \o repo, body |-> None,
                 default |-> [builtin |-> TRUE, v |-> <<"repository", repo>>]]

\* variant: a call already in the log is not recorded again
record_call_Once(calls, method, path, body) ==
    IF \E i \in 1..Len(calls) : calls[i].method = method /\ calls[i].path = path
    THEN calls
    ELSE Append(calls, [method |-> method, path |-> path, body |-> body])

\* MockGitHubClient::record_call
record_call(calls, method, path, body) ==
    Append(calls, [method |-> method, path |-> path, body |-> body])

\* MockGitHubClient::get_response
get_response(responses, key) ==
    IF key \in DOMAIN responses THEN Some(responses[key]) ELSE None

\* MockGitHubClient::was_called: iter().any(..)
RECURSIVE was_called(_, _, _)
was_called(calls, method, path) ==
    IF calls = <<>> THEN FALSE
    ELSE \/ (Head(calls).method = method /\ Head(calls).path = path)
         \/ was_called(Tail(calls), method, path)

\* MockGitHubClient::call_count: iter().filter(..).count()
RECURSIVE call_count(_, _, _)
call_count(calls, method, path) ==
    IF calls = <<>> THEN 0
    ELSE (IF Head(calls).method = method /\ Head(calls).path = path THEN 1 ELSE 0)
         + call_count(Tail(calls), method, path)

\* one of the mock API methods, from the call to the returned Ok(value): the
\* call is recorded, then the answer is looked up under "METHOD:path"
MockApi ==
    /\ Len(mock.calls) < MaxCalls
    /\ \E api \in {"create_issue_comment", "update_issue", "add_labels_to_issue",
                   "get_repository"},
          text \in {"Test", "Test 2"} :
         LET q == MockRequest(api, "test/repo", 42, text)
             response == get_response(mock.responses, q.method \o ":" \o q.path)
         IN  mock' = [mock EXCEPT
                        !.calls = record_call(@, q.method, q.path, q.body),
                        !.last = Some(IF IsSome(response) THEN Unwrap(response)
                                      ELSE q.default)]
    /\ UNCHANGED webhookVars
    /\ UNCHANGED cacheVars
    /\ UNCHANGED testVars
    /\ UNCHANGED <<probe, loaded>>

\* MockGitHubClient::set_response
set_response ==
    /\ \E key \in {"POST:/repos/test/repo/issues/42/comments", "GET:/repos/test/repo",
                   "DELETE:/test"},
          response \in {[builtin |-> FALSE, v |-> "custom"]} :
         mock' = [mock EXCEPT !.responses =
                     [k \in DOMAIN @ \cup {key} |-> IF k = key THEN response ELSE @[k]]]
    /\ UNCHANGED webhookVars
    /\ UNCHANGED cacheVars
    /\ UNCHANGED testVars
    /\ UNCHANGED <<probe, loaded>>

\* MockGitHubClient::clear_calls
clear_calls ==
    /\ mock' = [mock EXCEPT !.calls = <<>>]
    /\ UNCHANGED webhookVars
    /\ UNCHANGED cacheVars
    /\ UNCHANGED testVars
    /\ UNCHANGED <<probe, loaded>>

-----------------------------------------------------------------------------
(* Credential loading: GitHubConfig::new and GithubConfig::new *)

\* std::fs::read on the paths of the file system under consideration: two key
\* files, a directory (exists, cannot be read) and a path that does not exist
ReadFile(path) ==
    CASE path = "a.pem" -> [ok |-> TRUE, exists |-> TRUE, bytes |-> "key-a"]
      [] path = "b.pem" -> [ok |-> TRUE, exists |-> TRUE, bytes |-> "key-b"]
      [] path = "keys/" -> [ok |-> FALSE, exists |-> TRUE, bytes |-> ""]
      [] OTHER -> [ok |-> FALSE, exists |-> FALSE, bytes |-> ""]

\* base64 STANDARD decode: a text is <<"b64", bytes>> when it is the encoding
\* of bytes, anything else is not base64
Base64Decode(text) ==
    IF Len(text) = 2 /\ text[1] = "b64"
    THEN [ok |-> TRUE, bytes |-> text[2]]
    ELSE [ok |-> FALSE, bytes |-> ""]

ConfigErr(msg) == [ok |-> FALSE, err |-> msg, app_id |-> 0, private_key |-> ""]

\* GitHubConfig::new: the path is tried first, the base64 text only when no
\* path was given
GitHubConfig_new(app_id, private_key_path, private_key_base64) ==
    IF IsSome(private_key_path)
    THEN LET read == ReadFile(Unwrap(private_key_path))
         IN  IF read.ok
             THEN [ok |-> TRUE, err |-> "", app_id |-> app_id, private_key |-> read.bytes]
             ELSE ConfigErr("read")
    ELSE IF IsSome(private_key_base64)
    THEN LET decoded == Base64Decode(Unwrap(private_key_base64))
         IN  IF decoded.ok
             THEN [ok |-> TRUE, err |-> "", app_id |-> app_id, private_key |-> decoded.bytes]
             ELSE ConfigErr("decode")
    ELSE ConfigErr("not provided")

\* GithubConfig::new of octofer-github: as above, with an existence test before
\* the read
GithubConfig_new(app_id, pk_path, pk_base64) ==
    IF IsSome(pk_path)
    THEN LET read == ReadFile(Unwrap(pk_path))
         IN  IF ~read.exists THEN ConfigErr("does not exist")
             ELSE IF read.ok
             THEN [ok |-> TRUE, err |-> "", app_id |-> app_id, private_key |-> read.bytes]
             ELSE ConfigErr("read")
    ELSE IF IsSome(pk_base64)
    THEN LET decoded == Base64Decode(Unwrap(pk_base64))
         IN  IF decoded.ok
             THEN [ok |-> TRUE, err |-> "", app_id |-> app_id, private_key |-> decoded.bytes]
             ELSE ConfigErr("decode")
    ELSE ConfigErr("not provided")

IdleLoad ==
    [pc |-> "idle", by |-> "", app_id |-> 0, path |-> None, base64 |-> None,
     result |-> ConfigErr("")]

\* an app id, an optional path and an optional base64 text
LoadInputs ==
    {[IdleLoad EXCEPT !.pc = "input", !.app_id = a, !.path = p, !.base64 = b] :
        a \in {1, 2},
        p \in {None} \cup {Some(f) : f \in {"a.pem", "b.pem", "keys/", "missing.pem"}},
        b \in {None} \cup {Some(t) : t \in {<<"b64", "key-a">>, <<"b64", "key-b">>,
                                            <<"!!">>}}}

ApplyGitHubConfig ==
    /\ loaded.pc = "input"
    /\ loaded' = [loaded EXCEPT
                    !.pc = "applied", !.by = "GitHubConfig",
                    !.result = GitHubConfig_new(loaded.app_id, loaded.path, loaded.base64)]
    /\ UNCHANGED webhookVars
    /\ UNCHANGED cacheVars
    /\ UNCHANGED testVars
    /\ UNCHANGED <<probe, mock>>

ApplyGithubConfig ==
    /\ loaded.pc = "input"
    /\ loaded' = [loaded EXCEPT
                    !.pc = "applied", !.by = "GithubConfig",
                    !.result = GithubConfig_new(loaded.app_id, loaded.path, loaded.base64)]
    /\ UNCHANGED webhookVars
    /\ UNCHANGED cacheVars
    /\ UNCHANGED testVars
    /\ UNCHANGED <<probe, mock>>

-----------------------------------------------------------------------------
(* Event classification *)

\* request bodies: <<0>> is not JSON, <<1>> a payload without installation,
\* <<1, k>> a payload whose installation object has id k
GarbageBody == <<0>>
PayloadBody == <<1>>
InstallationBody(k) == <<1, k>>

BodyInstallationIds == {5, 555}
Bodies == {GarbageBody, PayloadBody} \cup {InstallationBody(k) : k \in BodyInstallationIds}

\* variant: a type outside the known ones is not classified
parse_webhook_event_KnownOnly(event_type, body) ==
    IF body = <<>> \/ body[1] # 1 \/ event_type \notin KnownEventTypes THEN None
    ELSE Some([kind |-> [known |-> TRUE, name |-> event_type],
               installation |-> IF Len(body) >= 2 THEN Some(body[2]) ELSE None])

\* WebhookEvent::try_from_header_and_body: the kind from the header (unknown
\* names are kept), the payload from the body
parse_webhook_event(event_type, body) ==
    IF body = <<>> \/ body[1] # 1 THEN None
    ELSE Some([kind |-> [known |-> event_type \in KnownEventTypes, name |-> event_type],
               installation |-> IF Len(body) >= 2 THEN Some(body[2]) ELSE None])

\* header values: text is whether HeaderValue::to_str succeeds
EventHeaders ==
    {None, Some([text |-> FALSE, s |-> "issues"])}
    \cup {Some([text |-> TRUE, s |-> n]) : n \in KnownEventTypes \cup {"zzz"}}

GoodSignature(body) == [prefix |-> "sha256=", hex |-> TRUE, bytes |-> HmacSha256(Secret, body)]

SignatureHeaders(body) ==
    {None,
     Some([text |-> FALSE, s |-> GoodSignature(body)]),
     Some([text |-> TRUE, s |-> GoodSignature(body)]),
     Some([text |-> TRUE, s |-> [prefix |-> "sha256=", hex |-> TRUE,
                                 bytes |-> HmacSha256(OtherSecret, body)]]),
     Some([text |-> TRUE, s |-> [prefix |-> "sha256=", hex |-> FALSE,
                                 bytes |-> HmacSha256(Secret, body)]]),
     Some([text |-> TRUE, s |-> [prefix |-> "md5=", hex |-> TRUE,
                                 bytes |-> HmacSha256(Secret, body)]])}

-----------------------------------------------------------------------------
(* Request slots *)

IdleReq ==
    [pc |-> "idle", sig |-> None, evt |-> None, body |-> <<>>, sent |-> <<>>,
     ext |-> None, ctx |-> None, idx |-> 0, invoked |-> <<>>, results |-> <<>>,
     stages |-> <<>>, status |-> 0, classified |-> None, verified |-> None,
     copy |-> None]

\* the requests holding the registry read guard of handle_webhook
Readers == {r \in Reqs : req[r].pc \in {"dispatch", "await"}}

\* a response leaves the stack: the request is answered with `code`
Respond(q, code) == [q EXCEPT !.pc = "done", !.status = code]

\* `x as i64` and `x as u64` on IdBits-bit integers
IdBits == 10
\* variant: a value above the largest signed one becomes the largest signed one
AsI64_Saturating(x) == IF x >= 2 ^ (IdBits - 1) THEN 2 ^ (IdBits - 1) - 1 ELSE x

AsI64(x) == IF x >= 2 ^ (IdBits - 1) THEN x - 2 ^ IdBits ELSE x
\* variant: the sign is dropped
AsU64_Abs(x) == IF x < 0 THEN 0 - x ELSE x

AsU64(x) == IF x < 0 THEN x + 2 ^ IdBits ELSE x

\* AppState.github_client as built by WebhookServer::new
StateGithubClient == Some("github_client")

-----------------------------------------------------------------------------
(* The route's layers, outermost first: github_event_middleware, then
   verify_hmac_middleware, then handle_webhook *)

\* a POST /webhook request enters the route
Arrive(r) ==
    /\ req[r].pc = "idle"
    /\ \E evt \in EventHeaders, body \in Bodies :
         \E sig \in SignatureHeaders(body) :
            req' = [req EXCEPT ![r] = [IdleReq EXCEPT !.pc = "event_mw", !.sig = sig,
                                          !.evt = evt, !.body = body, !.sent = body]]
    /\ UNCHANGED <<handlers, nextHandler, writer>>
    /\ UNCHANGED cacheVars
    /\ UNCHANGED testVars
    /\ UNCHANGED unitVars

\* a delivery as GitHub sends it: a known event name, a JSON payload and the
\* digest of the payload under the shared secret
Delivery(r) ==
    /\ req[r].pc = "idle"
    /\ \E n \in KnownEventTypes, body \in Bodies \ {GarbageBody} :
         req' = [req EXCEPT ![r] =
                    [IdleReq EXCEPT !.pc = "event_mw",
                                    !.sig = Some([text |-> TRUE, s |-> GoodSignature(body)]),
                                    !.evt = Some([text |-> TRUE, s |-> n]),
                                    !.body = body, !.sent = body]]
    /\ UNCHANGED <<handlers, nextHandler, writer>>
    /\ UNCHANGED cacheVars
    /\ UNCHANGED testVars
    /\ UNCHANGED unitVars

\* a signed issues delivery whose installation object carries any id an
\* unsigned IdBits-bit integer can hold
IdDelivery(r) ==
    /\ req[r].pc = "idle"
    /\ \E k \in 0..(2 ^ IdBits - 1) :
         LET body == InstallationBody(k)
         IN  req' = [req EXCEPT ![r] =
                        [IdleReq EXCEPT !.pc = "event_mw",
                                        !.sig = Some([text |-> TRUE, s |-> GoodSignature(body)]),
                                        !.evt = Some([text |-> TRUE, s |-> "issues"]),
                                        !.body = body, !.sent = body]]
    /\ UNCHANGED <<handlers, nextHandler, writer>>
    /\ UNCHANGED cacheVars
    /\ UNCHANGED testVars
    /\ UNCHANGED unitVars

\* Body::empty()
EmptyBody == <<>>

\* variant: the body taken out of the request is not put back
EventMiddlewareStep_NoRestore(q) ==
    IF ~IsSome(q.evt) \/ ~Unwrap(q.evt).text
    THEN Respond(q, StatusBadRequest)
    ELSE LET event_type == Unwrap(q.evt).s
             body == q.body
             taken == [q EXCEPT !.body = EmptyBody]
             event == parse_webhook_event(event_type, body)
         IN  IF ~IsSome(event)
             THEN Respond([q EXCEPT !.stages = Append(@, "classify_err")],
                          StatusBadRequest)
             ELSE LET e == Unwrap(event)
                      installation_id ==
                          IF IsSome(e.installation)
                          THEN Some(AsI64(Unwrap(e.installation))) ELSE None
                  IN  [taken EXCEPT !.ext = Some([event |-> e,
                                                  installation_id |-> installation_id]),
                                    !.classified = Some(body),
                                    !.stages = Append(@, "classify_ok"),
                                    !.pc = "hmac_mw"]

\* github_event_middleware applied to request record q: the body is taken
\* out of the request (an empty one is left in its place), parsed, and put
\* back before the request goes on
EventMiddlewareStep(q) ==
    IF ~IsSome(q.evt) \/ ~Unwrap(q.evt).text
    THEN Respond(q, StatusBadRequest)
    ELSE LET event_type == Unwrap(q.evt).s
             body == q.body
             taken == [q EXCEPT !.body = EmptyBody]
             event == parse_webhook_event(event_type, body)
         IN  IF ~IsSome(event)
             THEN Respond([q EXCEPT !.stages = Append(@, "classify_err")],
                          StatusBadRequest)
             ELSE LET e == Unwrap(event)
                      installation_id ==
                          IF IsSome(e.installation)
                          THEN Some(AsI64(Unwrap(e.installation))) ELSE None
                  IN  [taken EXCEPT !.ext = Some([event |-> e,
                                                  installation_id |-> installation_id]),
                                    !.classified = Some(body),
                                    !.body = body,
                                    !.stages = Append(@, "classify_ok"),
                                    !.pc = "hmac_mw"]

github_event_middleware(r) ==
    /\ req[r].pc = "event_mw"
    /\ req' = [req EXCEPT ![r] = EventMiddlewareStep(req[r])]
    /\ UNCHANGED <<handlers, nextHandler, writer>>
    /\ UNCHANGED cacheVars
    /\ UNCHANGED testVars
    /\ UNCHANGED unitVars

\* variant: a malformed signature header is answered 400, a mismatch 401
HmacMiddlewareStep_MalformedIs400(q) ==
    IF ~IsSome(q.sig) \/ ~Unwrap(q.sig).text
    THEN Respond(q, StatusBadRequest)
    ELSE LET signature == Unwrap(q.sig).s
             payload == q.body
             verdict == verify_hmac_sha256(signature, payload, Secret)
         IN  IF verdict = VerifyOk
             THEN [q EXCEPT !.body = payload,
                            !.verified = Some(payload),
                            !.stages = Append(@, "verify_ok"),
                            !.pc = "handler"]
             ELSE Respond([q EXCEPT !.stages = Append(@, "verify_err")],
                          IF verdict = ErrMismatch THEN StatusUnauthorized
                          ELSE StatusBadRequest)

\* verify_hmac_middleware applied to request record q
HmacMiddlewareStep(q) ==
    IF ~IsSome(q.sig) \/ ~Unwrap(q.sig).text
    THEN Respond(q, StatusBadRequest)
    ELSE LET signature == Unwrap(q.sig).s
             payload == q.body
         IN  IF verify_hmac_sha256(signature, payload, Secret) = VerifyOk
             THEN [q EXCEPT !.body = payload,
                            !.verified = Some(payload),
                            !.stages = Append(@, "verify_ok"),
                            !.pc = "handler"]
             ELSE Respond([q EXCEPT !.stages = Append(@, "verify_err")],
                          StatusUnauthorized)

verify_hmac_middleware(r) ==
    /\ req[r].pc = "hmac_mw"
    /\ req' = [req EXCEPT ![r] = HmacMiddlewareStep(req[r])]
    /\ UNCHANGED <<handlers, nextHandler, writer>>
    /\ UNCHANGED cacheVars
    /\ UNCHANGED testVars
    /\ UNCHANGED unitVars

-----------------------------------------------------------------------------
(* handle_webhook *)

\* the handler list the dispatch of q iterates over
EventHandlers(q) == handlers[ContextKind(Unwrap(q.ctx))]

\* variant: an event without handlers is answered as a failure
HandleWebhookStep_NoHandlersFails(q) ==
    IF ~IsSome(q.ext)
    THEN Respond(q, StatusBadRequest)
    ELSE LET g == Unwrap(q.ext)
             ctx == [event |-> Some(g.event),
                     installation_id |->
                         IF IsSome(g.installation_id)
                         THEN Some(AsU64(Unwrap(g.installation_id))) ELSE None,
                     github_client |-> StateGithubClient]
             withCtx == [q EXCEPT !.ctx = Some(ctx)]
         IN  IF ContextKind(ctx) \in DOMAIN handlers
                /\ handlers[ContextKind(ctx)] # <<>>
             THEN [withCtx EXCEPT !.pc = "dispatch", !.idx = 1]
             ELSE Respond(withCtx, StatusInternalServerError)

\* entry of handle_webhook up to the registry lookup
HandleWebhookStep(q) ==
    IF ~IsSome(q.ext)
    THEN Respond(q, StatusBadRequest)
    ELSE LET g == Unwrap(q.ext)
             ctx == [event |-> Some(g.event),
                     installation_id |->
                         IF IsSome(g.installation_id)
                         THEN Some(AsU64(Unwrap(g.installation_id))) ELSE None,
                     github_client |-> StateGithubClient]
             withCtx == [q EXCEPT !.ctx = Some(ctx)]
         IN  IF ContextKind(ctx) \in DOMAIN handlers
                /\ handlers[ContextKind(ctx)] # <<>>
             THEN [withCtx EXCEPT !.pc = "dispatch", !.idx = 1]
             ELSE Respond(withCtx, StatusOK)

\* handlers.read().await waits behind a queued writer (the lock is fair)
handle_webhook(r) ==
    /\ req[r].pc = "handler"
    /\ IsSome(req[r].ext) => ~IsSome(writer)
    /\ req' = [req EXCEPT ![r] = HandleWebhookStep(req[r])]
    /\ UNCHANGED <<handlers, nextHandler, writer>>
    /\ UNCHANGED cacheVars
    /\ UNCHANGED testVars
    /\ UNCHANGED unitVars

\* variant: the context is handed from one handler to the next
HandedContext_Moved(q) == IF IsSome(q.copy) THEN q.copy ELSE q.ctx

\* ctx.clone(): the value the next handler owns (q.copy still holds what the
\* previous handler left of its own)
HandedContext(q) == q.ctx

\* handler(ctx.clone()): the next handler of the list is called
InvokeHandler(r) ==
    /\ req[r].pc = "dispatch"
    /\ req' = [req EXCEPT ![r].invoked = Append(@, EventHandlers(req[r])[req[r].idx]),
                          ![r].copy = HandedContext(req[r]),
                          ![r].pc = "await"]
    /\ UNCHANGED <<handlers, nextHandler, writer>>
    /\ UNCHANGED cacheVars
    /\ UNCHANGED testVars
    /\ UNCHANGED unitVars

\* what a handler can do to the Context it owns (the fields are pub): drop the
\* event, the installation id or the client handle
ContextEdits(ctx) ==
    {[ctx EXCEPT !.event = None], [ctx EXCEPT !.installation_id = None],
     [ctx EXCEPT !.github_client = None]} \ {ctx}

\* the running handler changes its Context
HandlerEdits(r) ==
    /\ req[r].pc = "await"
    /\ \E edited \in ContextEdits(Unwrap(req[r].copy)) :
         req' = [req EXCEPT ![r].copy = Some(edited)]
    /\ UNCHANGED <<handlers, nextHandler, writer>>
    /\ UNCHANGED cacheVars
    /\ UNCHANGED testVars
    /\ UNCHANGED unitVars

\* variant: a failing handler is logged and the loop goes on
AfterHandler_ContinueOnErr(q, res, n) ==
    LET done == [q EXCEPT !.results = Append(@, res)]
    IN  IF q.idx = n
        THEN Respond(done, IF res = "Err" THEN StatusInternalServerError ELSE StatusOK)
        ELSE [done EXCEPT !.idx = q.idx + 1, !.pc = "dispatch"]

\* variant: the request is answered as soon as one handler has succeeded
AfterHandler_EarlyOk(q, res, n) ==
    LET done == [q EXCEPT !.results = Append(@, res)]
    IN  IF res = "Err" THEN Respond(done, StatusInternalServerError)
        ELSE Respond(done, StatusOK)

\* the match on the awaited handler's result, for a list of n handlers
AfterHandler(q, res, n) ==
    LET done == [q EXCEPT !.results = Append(@, res)]
    IN  IF res = "Err" THEN Respond(done, StatusInternalServerError)
        ELSE IF q.idx = n THEN Respond(done, StatusOK)
        ELSE [done EXCEPT !.idx = q.idx + 1, !.pc = "dispatch"]

\* variant: a handler that returns an error is dropped from the registry
HandlerReturns_Deregister(r) ==
    /\ req[r].pc = "await"
    /\ \E res \in {"Ok", "Err"} :
         /\ req' = [req EXCEPT ![r] = AfterHandler(req[r], res, Len(EventHandlers(req[r])))]
         /\ handlers' =
               IF res = "Err"
               THEN [handlers EXCEPT ![ContextKind(Unwrap(req[r].ctx))] =
                        SubSeq(@, 1, req[r].idx - 1) \o SubSeq(@, req[r].idx + 1, Len(@))]
               ELSE handlers
    /\ UNCHANGED <<nextHandler, writer>>
    /\ UNCHANGED cacheVars
    /\ UNCHANGED testVars
    /\ UNCHANGED unitVars

\* .await completes: the running handler returns Ok(()) or Err(e)
HandlerReturns(r) ==
    /\ req[r].pc = "await"
    /\ \E res \in {"Ok", "Err"} :
         req' = [req EXCEPT ![r] = AfterHandler(req[r], res, Len(EventHandlers(req[r])))]
    /\ UNCHANGED <<handlers, nextHandler, writer>>
    /\ UNCHANGED cacheVars
    /\ UNCHANGED testVars
    /\ UNCHANGED unitVars

\* the response has been sent; the slot takes the next request
Reset(r) ==
    /\ req[r].pc = "done"
    /\ req' = [req EXCEPT ![r] = IdleReq]
    /\ UNCHANGED <<handlers, nextHandler, writer>>
    /\ UNCHANGED cacheVars
    /\ UNCHANGED testVars
    /\ UNCHANGED unitVars

-----------------------------------------------------------------------------
(* WebhookServer::on *)

\* variant: a new key gets the default list and the handler is left out
RegistryPush_DefaultOnly(map, event, h) ==
    IF event \in DOMAIN map
    THEN [map EXCEPT ![event] = Append(@, h)]
    ELSE [k \in DOMAIN map \cup {event} |-> IF k = event THEN <<>> ELSE map[k]]

\* variant: the new handler is put at the front of the list
RegistryPush_Front(map, event, h) ==
    IF event \in DOMAIN map
    THEN [map EXCEPT ![event] = <<h>> \o @]
    ELSE [k \in DOMAIN map \cup {event} |-> IF k = event THEN <<h>> ELSE map[k]]

\* handlers.entry(event).or_default().push(boxed_handler)
RegistryPush(map, event, h) ==
    IF event \in DOMAIN map
    THEN [map EXCEPT ![event] = Append(@, h)]
    ELSE [k \in DOMAIN map \cup {event} |-> IF k = event THEN <<h>> ELSE map[k]]

\* the write guard is granted at once when no dispatch holds a read guard;
\* `on` takes &mut self, so no other `on` call is waiting
On(event) ==
    /\ nextHandler <= MaxHandlers
    /\ ~IsSome(writer)
    /\ Readers = {}
    /\ handlers' = RegistryPush(handlers, event, nextHandler)
    /\ nextHandler' = nextHandler + 1
    /\ UNCHANGED <<writer, req>>
    /\ UNCHANGED cacheVars
    /\ UNCHANGED testVars
    /\ UNCHANGED unitVars

\* variant: the write guard is granted next to the read guards
OnWaits_Granted(event) ==
    /\ nextHandler <= MaxHandlers
    /\ ~IsSome(writer)
    /\ Readers # {}
    /\ handlers' = RegistryPush(handlers, event, nextHandler)
    /\ nextHandler' = nextHandler + 1
    /\ UNCHANGED <<writer, req>>
    /\ UNCHANGED cacheVars
    /\ UNCHANGED testVars
    /\ UNCHANGED unitVars

\* `on` while a dispatch holds a read guard: the call suspends in write().await
OnWaits(event) ==
    /\ nextHandler <= MaxHandlers
    /\ ~IsSome(writer)
    /\ Readers # {}
    /\ writer' = Some(event)
    /\ UNCHANGED <<handlers, nextHandler, req>>
    /\ UNCHANGED cacheVars
    /\ UNCHANGED testVars
    /\ UNCHANGED unitVars

\* variant: the suspended call returns without its push
OnResumes_Lost ==
    /\ IsSome(writer)
    /\ Readers = {}
    /\ nextHandler' = nextHandler + 1
    /\ writer' = None
    /\ UNCHANGED <<handlers, req>>
    /\ UNCHANGED cacheVars
    /\ UNCHANGED testVars
    /\ UNCHANGED unitVars

\* the last read guard is gone: the suspended `on` gets the write guard,
\* pushes and returns
OnResumes ==
    /\ IsSome(writer)
    /\ Readers = {}
    /\ handlers' = RegistryPush(handlers, Unwrap(writer), nextHandler)
    /\ nextHandler' = nextHandler + 1
    /\ writer' = None
    /\ UNCHANGED req
    /\ UNCHANGED cacheVars
    /\ UNCHANGED testVars
    /\ UNCHANGED unitVars

-----------------------------------------------------------------------------
(* TestApp: a registry of its own, dispatch without the HTTP route *)

\* the event types tests register and dispatch under
TestEventTypes == {"issues", "push"}

IdleRun ==
    [pc |-> "idle", event_type |-> "", list |-> <<>>, idx |-> 0, results |-> <<>>,
     invoked |-> <<>>, returned |-> "", prev |-> ""]

\* variant: the entry is overwritten with a list of the new handler alone
TestRegistryPush_Replace(map, event_type, h) ==
    [k \in DOMAIN map \cup {event_type} |-> IF k = event_type THEN <<h>> ELSE map[k]]

\* handlers.entry(event_type.to_string()).or_insert_with(Vec::new).push(handler_fn)
TestRegistryPush(map, event_type, h) ==
    IF event_type \in DOMAIN map
    THEN [map EXCEPT ![event_type] = Append(@, h)]
    ELSE [k \in DOMAIN map \cup {event_type} |-> IF k = event_type THEN <<h>> ELSE map[k]]

\* TestApp::register_handler; &mut self: no handle_event call is under way
register_handler(event_type) ==
    /\ nextHandler <= MaxHandlers
    /\ testRun.pc # "run"
    /\ testHandlers' = TestRegistryPush(testHandlers, event_type, nextHandler)
    /\ nextHandler' = nextHandler + 1
    /\ UNCHANGED <<handlers, writer, req, testRun>>
    /\ UNCHANGED cacheVars
    /\ UNCHANGED unitVars

\* TestApp::clear_handlers; &mut self
clear_handlers ==
    /\ testRun.pc # "run"
    /\ testHandlers' = <<>>
    /\ UNCHANGED testRun
    /\ UNCHANGED webhookVars
    /\ UNCHANGED cacheVars
    /\ UNCHANGED unitVars

\* variant: without handlers of the type, those of another type are run
execute_handlers_Fallback(event_type) ==
    /\ testRun.pc = "idle"
    /\ \E other \in DOMAIN testHandlers \cup {event_type} :
         LET key == IF event_type \in DOMAIN testHandlers THEN event_type ELSE other
             list == IF key \in DOMAIN testHandlers THEN testHandlers[key] ELSE <<>>
         IN  testRun' = IF list = <<>>
                        THEN [IdleRun EXCEPT !.pc = "done", !.event_type = event_type,
                                             !.returned = "Ok", !.prev = testRun.prev]
                        ELSE [IdleRun EXCEPT !.pc = "run", !.event_type = event_type,
                                             !.list = list, !.idx = 1,
                                             !.invoked = <<list[1]>>,
                                             !.prev = testRun.prev]
    /\ UNCHANGED testHandlers
    /\ UNCHANGED webhookVars
    /\ UNCHANGED cacheVars
    /\ UNCHANGED unitVars

\* TestApp::execute_handlers up to the first handler: the list registered
\* under the event type is cloned under the read lock
execute_handlers(event_type) ==
    /\ testRun.pc = "idle"
    /\ LET list == IF event_type \in DOMAIN testHandlers
                   THEN testHandlers[event_type] ELSE <<>>
       IN  testRun' = IF list = <<>>
                      THEN [IdleRun EXCEPT !.pc = "done", !.event_type = event_type,
                                             !.returned = "Ok", !.prev = testRun.prev]
                      ELSE [IdleRun EXCEPT !.pc = "run", !.event_type = event_type,
                                           !.list = list, !.idx = 1,
                                           !.invoked = <<list[1]>>,
                                           !.prev = testRun.prev]
    /\ UNCHANGED testHandlers
    /\ UNCHANGED webhookVars
    /\ UNCHANGED cacheVars
    /\ UNCHANGED unitVars

\* variant: a failing handler is passed over and the dispatch returns Ok
TestHandlerReturns_PassOver ==
    /\ testRun.pc = "run"
    /\ \E res \in {"Ok", "Err"} :
         testRun' = [testRun EXCEPT
                        !.results = Append(@, res),
                        !.idx = testRun.idx + 1,
                        !.invoked = IF testRun.idx = Len(testRun.list)
                                    THEN @ ELSE Append(@, testRun.list[testRun.idx + 1]),
                        !.returned = IF testRun.idx = Len(testRun.list) THEN "Ok" ELSE @,
                        !.pc = IF testRun.idx = Len(testRun.list) THEN "done" ELSE "run"]
    /\ UNCHANGED testHandlers
    /\ UNCHANGED webhookVars
    /\ UNCHANGED cacheVars
    /\ UNCHANGED unitVars

\* handler(context.clone()).await? on the cloned list, and the Ok(()) after
\* the loop
TestHandlerReturns ==
    /\ testRun.pc = "run"
    /\ \E res \in {"Ok", "Err"} :
         testRun' = [testRun EXCEPT
                        !.results = Append(@, res),
                        !.idx = testRun.idx + 1,
                        !.invoked = IF res = "Err" \/ testRun.idx = Len(testRun.list)
                                    THEN @ ELSE Append(@, testRun.list[testRun.idx + 1]),
                        !.returned = IF res = "Err" THEN "Err"
                                     ELSE IF testRun.idx = Len(testRun.list) THEN "Ok"
                                     ELSE @,
                        !.pc = IF res = "Err" \/ testRun.idx = Len(testRun.list)
                               THEN "done" ELSE "run"]
    /\ UNCHANGED testHandlers
    /\ UNCHANGED webhookVars
    /\ UNCHANGED cacheVars
    /\ UNCHANGED unitVars

\* handle_event has returned its Result
TestReturn ==
    /\ testRun.pc = "done"
    /\ testRun' = IdleRun
    /\ UNCHANGED testHandlers
    /\ UNCHANGED webhookVars
    /\ UNCHANGED cacheVars
    /\ UNCHANGED unitVars

\* the match of TestApp::handle_event on event.kind: five kinds have a name,
\* every other kind goes under "unknown"
TestEventKey(kind) ==
    IF kind.known
       /\ kind.name \in {"issues", "issue_comment", "pull_request", "push", "release"}
    THEN kind.name
    ELSE "unknown"

\* TestApp::handle_event on the event the webhook route has just answered
handle_event(r) ==
    /\ req[r].pc = "done"
    /\ IsSome(req[r].ctx)
    /\ execute_handlers(TestEventKey(Unwrap(Unwrap(req[r].ctx).event).kind))

\* one handler registered with the server and with a TestApp under the same
\* name, before events are dispatched
RegisterBoth(event) ==
    /\ nextHandler <= MaxHandlers
    /\ \A r \in Reqs : req[r].pc = "idle"
    /\ testRun.pc = "idle"
    /\ handlers' = RegistryPush(handlers, event, nextHandler)
    /\ testHandlers' = TestRegistryPush(testHandlers, event, nextHandler)
    /\ nextHandler' = nextHandler + 1
    /\ UNCHANGED <<writer, req, testRun>>
    /\ UNCHANGED cacheVars
    /\ UNCHANGED unitVars

\* handle_event has returned its Result, which the caller keeps
TestReturnKept ==
    /\ testRun.pc = "done"
    /\ testRun' = [IdleRun EXCEPT !.prev = testRun.returned]
    /\ UNCHANGED testHandlers
    /\ UNCHANGED webhookVars
    /\ UNCHANGED cacheVars
    /\ UNCHANGED unitVars

TestInit ==
    /\ testHandlers = <<>>
    /\ testRun = IdleRun

-----------------------------------------------------------------------------
WebhookInit ==
    /\ handlers = <<>>
    /\ nextHandler = 1
    /\ writer = None
    /\ req = [r \in Reqs |-> IdleReq]

-----------------------------------------------------------------------------
(* GitHubClient: installation token cache *)

MaxTokens == 2

\* RetryConfig::Simple(20) of the app client: the number of times a request
\* answered with a server error, a 429 or a transport error is sent again
\* (scaled down)
RetryCount == 1

\* chrono::Duration::hours(1) and chrono::Duration::minutes(5), in minutes
DefaultLifetime == 60
Buffer == 5

\* the tasks calling into the client concurrently
Callers == {1, 2}

\* installation ids callers ask for; the app is installed on the first two
InstallationIds == {1, 2, 3}
RemoteInstallations == {1, 2}

\* access_tokens_url values: one Url::parse accepts and one it rejects
TokensUrl == "https://api.github.com/app/installations/access_tokens"
BrokenUrl == "app/installations/access_tokens"
UrlParses(u) == u = TokensUrl

\* what get_installations may answer: id -> access_tokens_url; the second
\* installation may come without a URL or with one that does not parse
Listings ==
    {[i \in RemoteInstallations |-> Some(TokensUrl)],
     [i \in RemoteInstallations |-> IF i = 2 THEN None ELSE Some(TokensUrl)],
     [i \in RemoteInstallations |-> IF i = 2 THEN Some(BrokenUrl) ELSE Some(TokensUrl)]}

\* the instants (minutes) at which the clock is read, and the lifetime the
\* remote stamps on a token when it stamps one
ClockInstants == {0, 5, 55}
RemoteLifetimes == {10}

\* timestamps as text: RFC 3339 from the API, Display of DateTime<Utc> locally
Rfc3339(t) == [fmt |-> "rfc3339", t |-> t]
DisplayUtc(t) == [fmt |-> "display", t |-> t]

\* parse_to_utc: chrono's FromStr for DateTime<Utc> reads both forms
parse_to_utc(date_str) == date_str.t

\* variant: the comparison with the buffer is strict
is_expired_Strict(cached, t) ==
    LET default_expires_at == cached.created_at + DefaultLifetime
        expires_at == IF IsSome(cached.token.expires_at)
                      THEN Unwrap(cached.token.expires_at)
                      ELSE DisplayUtc(default_expires_at)
    IN  t + Buffer > parse_to_utc(expires_at)

\* CachedInstallationClient::is_expired, at time t
is_expired(cached, t) ==
    LET default_expires_at == cached.created_at + DefaultLifetime
        expires_at == IF IsSome(cached.token.expires_at)
                      THEN Unwrap(cached.token.expires_at)
                      ELSE DisplayUtc(default_expires_at)
    IN  t + Buffer >= parse_to_utc(expires_at)

IdleCall ==
    [pc |-> "idle", id |-> 0, token |-> None, created_at |-> 0, result |-> None,
     hit |-> FALSE, listReqs |-> 0, tokenReqs |-> 0, listed |-> None,
     url |-> None, retries |-> 0, ctx |-> None, outer |-> None]

\* the read-locked block of installation_client: is there a usable entry
CacheLookup(clients, installation_id, t) ==
    IF installation_id \in DOMAIN clients /\ ~is_expired(clients[installation_id], t)
    THEN Some(clients[installation_id].client)
    ELSE None

\* variant: the write guard is taken on entry and kept until the new client
\* is in the cache
GuardAt_ThroughCreation(pc) ==
    IF pc \in {"list", "post", "insert"} THEN "write" ELSE "none"

\* variant: the read guard of the lookup is kept until the new client is in
\* the cache
GuardAt_ReadKept(pc) ==
    IF pc \in {"list", "post", "insert"} THEN "read" ELSE "none"

\* the guard on installation_clients a caller holds while it is suspended at
\* `pc`: the read guard ends with the lookup block and the write guard with
\* the insert block, each before the next await
GuardAt(pc) == "none"

\* installation_client up to its first await on the network
InstallationClient(c) ==
    /\ call[c].pc = "idle"
    /\ \A d \in Callers \ {c} : GuardAt(call[d].pc) # "write"
    /\ \E id \in InstallationIds :
         LET cached == CacheLookup(installation_clients, id, now)
             started == [IdleCall EXCEPT !.id = id]
         IN  call' = [call EXCEPT ![c] =
                 IF IsSome(cached)
                 THEN [started EXCEPT !.pc = "done", !.hit = TRUE,
                                      !.result = Some([ok |-> TRUE, v |-> Unwrap(cached)])]
                 ELSE [started EXCEPT !.pc = "list", !.listReqs = 1]]
    /\ UNCHANGED <<installation_clients, now, tokensMinted, preClear>>
    /\ UNCHANGED webhookVars
    /\ UNCHANGED testVars
    /\ UNCHANGED unitVars

Failed(k, msg) ==
    [k EXCEPT !.pc = "done", !.result = Some([ok |-> FALSE, v |-> msg]),
              !.retries = 0]

\* variant: the installation is not looked up in the list
AfterList_NoFind(k, listed) ==
    IF ~IsSome(listed) THEN Failed(k, "Failed to fetch installations")
    ELSE [k EXCEPT !.pc = "post", !.listed = Some(DOMAIN Unwrap(listed)),
                   !.tokenReqs = k.tokenReqs + 1, !.retries = 0]

\* create_installation_token after get_installations answered with `listed`
\* (None: the request failed)
AfterList(k, listed) ==
    IF ~IsSome(listed) THEN Failed(k, "Failed to fetch installations")
    ELSE LET installations == Unwrap(listed)
             seen == [k EXCEPT !.listed = Some(DOMAIN installations)]
         IN  IF k.id \notin DOMAIN installations
             THEN Failed(seen, "not found")
             ELSE LET access_tokens_url == installations[k.id]
                      found == [seen EXCEPT !.url = access_tokens_url]
                  IN  IF ~IsSome(access_tokens_url)
                      THEN Failed(found, "No access tokens URL")
                      ELSE IF ~UrlParses(Unwrap(access_tokens_url))
                      THEN Failed(found, "Invalid access tokens URL")
                      ELSE [found EXCEPT !.pc = "post",
                                         !.tokenReqs = k.tokenReqs + 1,
                                         !.retries = 0]

\* variant: the retry policy never gives up
MayRetry_Unbounded(retries) == retries >= 0

\* the retry policy of the app client, which each request starts afresh: a
\* request that failed transiently is sent again while retries are left
MayRetry(retries) == retries < RetryCount

\* the list request is answered with a transient failure and sent again
ListRetry(c) ==
    /\ call[c].pc = "list"
    /\ MayRetry(call[c].retries)
    /\ call' = [call EXCEPT ![c].retries = call[c].retries + 1]
    /\ UNCHANGED <<installation_clients, now, tokensMinted, preClear>>
    /\ UNCHANGED webhookVars
    /\ UNCHANGED testVars
    /\ UNCHANGED unitVars

ListReturns(c) ==
    /\ call[c].pc = "list"
    /\ \E listed \in {None} \cup {Some(l) : l \in Listings} :
         call' = [call EXCEPT ![c] = AfterList(call[c], listed)]
    /\ UNCHANGED <<installation_clients, now, tokensMinted, preClear>>
    /\ UNCHANGED webhookVars
    /\ UNCHANGED testVars
    /\ UNCHANGED unitVars

\* create_installation_client once the token request answered with `token`
\* (None: the request failed), at time t; built: Octocrab::builder().build()
\* succeeded
AfterPost(k, token, built, t) ==
    IF ~IsSome(token) THEN Failed(k, "Failed to create installation token")
    ELSE IF ~built THEN Failed(k, "Failed to create installation client")
    ELSE [k EXCEPT !.pc = "insert", !.token = token, !.created_at = t,
                   !.retries = 0]

\* the token request is answered with a transient failure and sent again
PostRetry(c) ==
    /\ call[c].pc = "post"
    /\ MayRetry(call[c].retries)
    /\ call' = [call EXCEPT ![c].retries = call[c].retries + 1]
    /\ UNCHANGED <<installation_clients, now, tokensMinted, preClear>>
    /\ UNCHANGED webhookVars
    /\ UNCHANGED testVars
    /\ UNCHANGED unitVars

\* the remote issues token number tokensMinted + 1 for the installation
PostReturns(c) ==
    /\ call[c].pc = "post"
    /\ \/ /\ call' = [call EXCEPT ![c] = AfterPost(call[c], None, TRUE, now)]
          /\ UNCHANGED tokensMinted
       \/ /\ tokensMinted < MaxTokens
          /\ \E expires_at \in {None} \cup {Some(Rfc3339(now + d)) : d \in RemoteLifetimes},
                built \in BOOLEAN :
               call' = [call EXCEPT ![c] =
                   AfterPost(call[c],
                             Some([token |-> tokensMinted + 1,
                                   installation |-> call[c].id,
                                   expires_at |-> expires_at]),
                             built, now)]
          /\ tokensMinted' = tokensMinted + 1
    /\ UNCHANGED <<installation_clients, now, preClear>>
    /\ UNCHANGED webhookVars
    /\ UNCHANGED testVars
    /\ UNCHANGED unitVars

\* the CachedInstallationClient built by create_installation_client
CachedClientOf(k) ==
    [client |-> Unwrap(k.token).token, token |-> Unwrap(k.token),
     created_at |-> k.created_at]

\* variant: the new entry replaces the whole map
CacheInsertInto_Only(clients, installation_id, cached_client) ==
    [i \in {installation_id} |-> cached_client]

\* variant: an existing entry is kept (entry().or_insert())
CacheInsertInto_KeepExisting(clients, installation_id, cached_client) ==
    [i \in DOMAIN clients \cup {installation_id} |->
        IF i \in DOMAIN clients THEN clients[i] ELSE cached_client]

\* clients.insert(installation_id, cached_client)
CacheInsertInto(clients, installation_id, cached_client) ==
    [i \in DOMAIN clients \cup {installation_id} |->
        IF i = installation_id THEN cached_client ELSE clients[i]]

\* the tokens that can still be handed out: cached, or about to be written
LiveTokens(clients, calls) ==
    {clients[i].token.token : i \in DOMAIN clients}
        \cup {Unwrap(calls[d].token).token : d \in {e \in Callers : calls[e].pc = "insert"}}

\* the write-locked block of create_installation_client and its return
CacheInsert(c) ==
    /\ call[c].pc = "insert"
    /\ \A d \in Callers : GuardAt(call[d].pc) = "none"
    /\ installation_clients' =
           CacheInsertInto(installation_clients, call[c].id, CachedClientOf(call[c]))
    /\ call' = [call EXCEPT ![c].pc = "done",
                            ![c].result = Some([ok |-> TRUE,
                                                v |-> CachedClientOf(call[c]).client])]
    /\ preClear' = preClear \cap LiveTokens(installation_clients', call')
    /\ UNCHANGED <<now, tokensMinted>>
    /\ UNCHANGED webhookVars
    /\ UNCHANGED testVars
    /\ UNCHANGED unitVars

\* the caller has its result; it may call again
Return(c) ==
    /\ call[c].pc = "done"
    /\ call' = [call EXCEPT ![c] = IdleCall]
    /\ UNCHANGED <<installation_clients, now, tokensMinted, preClear>>
    /\ UNCHANGED webhookVars
    /\ UNCHANGED testVars
    /\ UNCHANGED unitVars

\* variant: a given id is ignored, everything goes
ClearedCache_All(clients, installation_id) == <<>>

\* clients.remove(&id) / clients.clear()
ClearedCache(clients, installation_id) ==
    IF IsSome(installation_id)
    THEN [i \in DOMAIN clients \ {Unwrap(installation_id)} |-> clients[i]]
    ELSE <<>>

\* the tokens that calls for the cleared ids hold between the token request
\* and the cache write
HeldTokens(installation_id) ==
    {Unwrap(call[c].token).token :
        c \in {d \in Callers :
                  /\ call[d].pc = "insert"
                  /\ IsSome(installation_id) => call[d].id = Unwrap(installation_id)}}

clear_installation_cache(installation_id) ==
    /\ \A d \in Callers : GuardAt(call[d].pc) = "none"
    /\ installation_clients' = ClearedCache(installation_clients, installation_id)
    /\ UNCHANGED <<now, call, tokensMinted, preClear>>
    /\ UNCHANGED webhookVars
    /\ UNCHANGED testVars
    /\ UNCHANGED unitVars

\* clear_installation_cache with the history of held tokens recorded
ClearRecorded(installation_id) ==
    /\ \A d \in Callers : GuardAt(call[d].pc) = "none"
    /\ installation_clients' = ClearedCache(installation_clients, installation_id)
    /\ preClear' = (preClear \cup HeldTokens(installation_id))
                       \cap LiveTokens(installation_clients', call)
    /\ UNCHANGED <<now, call, tokensMinted>>
    /\ UNCHANGED webhookVars
    /\ UNCHANGED testVars
    /\ UNCHANGED unitVars

Tick ==
    /\ \E t \in ClockInstants :
         /\ t > now
         /\ now' = t
    /\ UNCHANGED <<installation_clients, call, tokensMinted, preClear>>
    /\ UNCHANGED webhookVars
    /\ UNCHANGED testVars
    /\ UNCHANGED unitVars

\* the github_client of the AppState a server was built with
ServerGithubClient(built) ==
    IF built = "new_default" THEN None ELSE StateGithubClient

\* variant: an error of the client is answered as "no client"
ContextResult_ErrIsNone(inner) ==
    IF inner.ok THEN [ok |-> TRUE, v |-> Some(inner.v)] ELSE [ok |-> TRUE, v |-> None]

\* Context::installation_client on the result of GitHubClient::installation_client:
\* `?` hands an error on, a client is wrapped in Ok(Some(_))
ContextResult(inner) ==
    IF inner.ok THEN [ok |-> TRUE, v |-> Some(inner.v)] ELSE inner

\* Context::installation_client up to its first await on the network, on the
\* context of a handler of a server built either way
Context_installation_client(c) ==
    /\ call[c].pc = "idle"
    /\ \A d \in Callers \ {c} : GuardAt(call[d].pc) # "write"
    /\ \E built \in {"new", "new_default"},
          installation_id \in {None} \cup {Some(i) : i \in InstallationIds} :
         LET ctx == [built |-> built,
                     github_client |-> ServerGithubClient(built),
                     installation_id |-> installation_id]
             entered == [IdleCall EXCEPT !.ctx = Some(ctx)]
         IN  call' = [call EXCEPT ![c] =
                 IF IsSome(ctx.github_client) /\ IsSome(ctx.installation_id)
                 THEN LET id == Unwrap(ctx.installation_id)
                          cached == CacheLookup(installation_clients, id, now)
                      IN  IF IsSome(cached)
                          THEN [entered EXCEPT
                                   !.id = id, !.pc = "done", !.hit = TRUE,
                                   !.result = Some([ok |-> TRUE, v |-> Unwrap(cached)])]
                          ELSE [entered EXCEPT !.id = id, !.pc = "list", !.listReqs = 1]
                 ELSE [entered EXCEPT !.pc = "returned",
                                      !.outer = Some([ok |-> TRUE, v |-> None])]]
    /\ UNCHANGED <<installation_clients, now, tokensMinted, preClear>>
    /\ UNCHANGED webhookVars
    /\ UNCHANGED testVars
    /\ UNCHANGED unitVars

\* the awaited client call has answered
ContextReturns(c) ==
    /\ call[c].pc = "done"
    /\ IsSome(call[c].ctx)
    /\ call' = [call EXCEPT ![c].pc = "returned",
                            ![c].outer = Some(ContextResult(Unwrap(call[c].result)))]
    /\ UNCHANGED <<installation_clients, now, tokensMinted, preClear>>
    /\ UNCHANGED webhookVars
    /\ UNCHANGED testVars
    /\ UNCHANGED unitVars

\* the handler has its result; it may call again
ContextDone(c) ==
    /\ call[c].pc = "returned"
    /\ call' = [call EXCEPT ![c] = IdleCall]
    /\ UNCHANGED <<installation_clients, now, tokensMinted, preClear>>
    /\ UNCHANGED webhookVars
    /\ UNCHANGED testVars
    /\ UNCHANGED unitVars

CacheInit ==
    /\ installation_clients = <<>>
    /\ now = 0
    /\ call = [c \in Callers |-> IdleCall]
    /\ tokensMinted = 0
    /\ preClear = {}

-----------------------------------------------------------------------------
(* Specifications *)

UnitInit == probe = IdleProbe /\ loaded = IdleLoad /\ mock = IdleMock

Init == WebhookInit /\ CacheInit /\ TestInit /\ UnitInit

\* one request at a time through the webhook route, registrations in between
Next ==
    \/ Arrive(1)
    \/ github_event_middleware(1)
    \/ verify_hmac_middleware(1)
    \/ handle_webhook(1)
    \/ InvokeHandler(1)
    \/ HandlerReturns(1)
    \/ Reset(1)
    \/ \E event \in RegistrationKeys : On(event)
    \/ \E event \in RegistrationKeys : OnWaits(event)
    \/ OnResumes

Spec == Init /\ [][Next]_vars

\* concurrent callers of the token cache
CacheNext ==
    \/ \E c \in Callers : InstallationClient(c)
    \/ \E c \in Callers : ListRetry(c)
    \/ \E c \in Callers : ListReturns(c)
    \/ \E c \in Callers : PostRetry(c)
    \/ \E c \in Callers : PostReturns(c)
    \/ \E c \in Callers : CacheInsert(c)
    \/ \E c \in Callers : Return(c)
    \/ \E id \in {None} \cup {Some(i) : i \in InstallationIds} :
          clear_installation_cache(id)
    \/ Tick

SpecCache == Init /\ [][CacheNext]_vars

\* concurrent callers of the token cache whose requests are answered at once
LockNext ==
    \/ \E c \in Callers : InstallationClient(c)
    \/ \E c \in Callers : ListReturns(c)
    \/ \E c \in Callers : PostReturns(c)
    \/ \E c \in Callers : CacheInsert(c)
    \/ \E c \in Callers : Return(c)
    \/ Tick

SpecLock == Init /\ [][LockNext]_vars

\* those callers next to clears of the cache
ClearingNext ==
    \/ LockNext
    \/ \E id \in {None} \cup {Some(i) : i \in InstallationIds} :
          clear_installation_cache(id)

\* the same when every remote call is answered in the end and the lock is
\* fair: a request under way is answered, a caller waiting for the write
\* guard gets it
SpecCacheFair ==
    /\ Init /\ [][ClearingNext]_vars
    /\ \A c \in Callers :
          /\ WF_vars(ListReturns(c))
          /\ WF_vars(PostReturns(c))
          /\ WF_vars(CacheInsert(c))

\* a handler calling Context::installation_client, time passing in between
ContextNext ==
    \/ Context_installation_client(1)
    \/ ListRetry(1)
    \/ ListReturns(1)
    \/ PostRetry(1)
    \/ PostReturns(1)
    \/ CacheInsert(1)
    \/ ContextReturns(1)
    \/ ContextDone(1)
    \/ Tick

SpecContext == Init /\ [][ContextNext]_vars

\* verify_hmac_sha256 applied to a body, a secret and a mutated body
VerifyInit ==
    /\ WebhookInit /\ CacheInit /\ TestInit
    /\ probe \in {i \in ProbeInputs : i.other \in SingleByteMutations(i.body)}
    /\ loaded = IdleLoad
    /\ mock = IdleMock

VerifyNext == ApplyVerify

SpecVerify == VerifyInit /\ [][VerifyNext]_vars

\* the two constructors applied to an app id and two optional key sources
ConfigInit ==
    /\ WebhookInit /\ CacheInit /\ TestInit
    /\ probe = IdleProbe
    /\ loaded \in LoadInputs
    /\ mock = IdleMock

ConfigNext ==
    \/ ApplyGitHubConfig
    \/ ApplyGithubConfig

SpecConfig == ConfigInit /\ [][ConfigNext]_vars

\* a test driving a MockGitHubClient
MockNext ==
    \/ MockApi
    \/ set_response
    \/ clear_calls

SpecMock == Init /\ [][MockNext]_vars

\* the keys Context::kind can yield for a classified event
DispatchKeys == {JsonString(n) : n \in KnownEventTypes}

\* deliveries served concurrently, registrations under the dispatch keys
ConcurrentNext ==
    \/ \E r \in Reqs : Delivery(r)
    \/ \E r \in Reqs : github_event_middleware(r)
    \/ \E r \in Reqs : verify_hmac_middleware(r)
    \/ \E r \in Reqs : handle_webhook(r)
    \/ \E r \in Reqs : InvokeHandler(r)
    \/ \E r \in Reqs : HandlerReturns(r)
    \/ \E r \in Reqs : Reset(r)
    \/ \E event \in DispatchKeys : On(event)
    \/ \E event \in DispatchKeys : OnWaits(event)
    \/ OnResumes

SpecConcurrent == Init /\ [][ConcurrentNext]_vars

\* deliveries to handlers that change the Context they are given
HandlersNext ==
    \/ Delivery(1)
    \/ github_event_middleware(1)
    \/ verify_hmac_middleware(1)
    \/ handle_webhook(1)
    \/ InvokeHandler(1)
    \/ HandlerEdits(1)
    \/ HandlerReturns(1)
    \/ Reset(1)
    \/ \E event \in DispatchKeys : On(event)

SpecHandlers == Init /\ [][HandlersNext]_vars

\* the two registries: the server's, with deliveries dispatched from it, and
\* the TestApp's
RegistryNext ==
    \/ Delivery(1)
    \/ github_event_middleware(1)
    \/ verify_hmac_middleware(1)
    \/ handle_webhook(1)
    \/ InvokeHandler(1)
    \/ HandlerReturns(1)
    \/ Reset(1)
    \/ \E event \in RegistrationKeys : On(event)
    \/ \E event \in RegistrationKeys : OnWaits(event)
    \/ OnResumes
    \/ \E event_type \in TestEventTypes : register_handler(event_type)
    \/ clear_handlers
    \/ \E event_type \in TestEventTypes : execute_handlers(event_type)
    \/ TestHandlerReturns
    \/ TestReturn

SpecRegistry == Init /\ [][RegistryNext]_vars

\* deliveries with every installation id, through the route
IdsNext ==
    \/ IdDelivery(1)
    \/ github_event_middleware(1)
    \/ verify_hmac_middleware(1)
    \/ handle_webhook(1)
    \/ Reset(1)

SpecIds == Init /\ [][IdsNext]_vars

\* a TestApp on its own: registrations, clears and dispatches whose results
\* the caller keeps
TestAppNext ==
    \/ \E event_type \in TestEventTypes : register_handler(event_type)
    \/ clear_handlers
    \/ \E event_type \in TestEventTypes : execute_handlers(event_type)
    \/ TestHandlerReturns
    \/ TestReturnKept

SpecTestApp == Init /\ [][TestAppNext]_vars

\* the same registrations made on a server and on a TestApp, and each event
\* the server has answered dispatched on the TestApp as well
SimulationNext ==
    \/ \E event \in RegistrationKeys \cup {"unknown"} : RegisterBoth(event)
    \/ Arrive(1)
    \/ github_event_middleware(1)
    \/ verify_hmac_middleware(1)
    \/ handle_webhook(1)
    \/ InvokeHandler(1)
    \/ HandlerReturns(1)
    \/ handle_event(1)
    \/ TestHandlerReturns
    \/ TestReturn
    \/ Reset(1)

SpecSimulation == Init /\ [][SimulationNext]_vars

\* two deliveries and registrations, where the handlers of request 1 may
\* never return: the runtime keeps running both request tasks, the handlers
\* of request 2 do return, and the write guard is granted once it is free
HungNext ==
    \/ Delivery(1)
    \/ github_event_middleware(1)
    \/ verify_hmac_middleware(1)
    \/ handle_webhook(1)
    \/ InvokeHandler(1)
    \/ HandlerReturns(1)
    \/ Reset(1)
    \/ Delivery(2)
    \/ github_event_middleware(2)
    \/ verify_hmac_middleware(2)
    \/ handle_webhook(2)
    \/ InvokeHandler(2)
    \/ HandlerReturns(2)
    \/ Reset(2)
    \/ \E event \in DispatchKeys : On(event)
    \/ \E event \in DispatchKeys : OnWaits(event)
    \/ OnResumes

SpecHung ==
    /\ Init
    /\ [][HungNext]_vars
    /\ WF_vars(github_event_middleware(1))
    /\ WF_vars(verify_hmac_middleware(1))
    /\ WF_vars(handle_webhook(1))
    /\ WF_vars(InvokeHandler(1))
    /\ WF_vars(github_event_middleware(2))
    /\ WF_vars(verify_hmac_middleware(2))
    /\ WF_vars(handle_webhook(2))
    /\ WF_vars(InvokeHandler(2))
    /\ WF_vars(HandlerReturns(2))
    /\ WF_vars(OnResumes)

\* concurrent callers and clears, with the tokens held across a clear recorded
RotationNext ==
    \/ \E c \in Callers : InstallationClient(c)
    \/ \E c \in Callers : ListReturns(c)
    \/ \E c \in Callers : PostReturns(c)
    \/ \E c \in Callers : CacheInsert(c)
    \/ \E c \in Callers : Return(c)
    \/ \E id \in {None} \cup {Some(i) : i \in InstallationIds} : ClearRecorded(id)
    \/ Tick

SpecRotation == Init /\ [][RotationNext]_vars

-----------------------------------------------------------------------------
(* Properties of the webhook route *)

\* the key the dispatcher derives for a request whose event header reads n
DispatchKey(q) == JsonString(Unwrap(q.evt).s)

\* the signature header is present, readable, and the sha256= hex digest of
\* the sent body under the configured secret
CorrectlySigned(q) ==
    /\ IsSome(q.sig)
    /\ Unwrap(q.sig).text
    /\ Unwrap(q.sig).s.prefix = "sha256="
    /\ Unwrap(q.sig).s.hex
    /\ Unwrap(q.sig).s.bytes = HmacSha256(Secret, q.sent)

\* the event header is present and readable and the body parses
WellFormed(q) ==
    /\ IsSome(q.evt)
    /\ Unwrap(q.evt).text
    /\ q.sent # GarbageBody

\* C1: fail-fast dispatch. Once a handler of a dispatch has returned an
\* error, it is the last handler invoked for that dispatch (the handlers
\* after it in the list are not invoked) and the request is answered 500.
C1_FailFast ==
    \A r \in Reqs : \A i \in 1..Len(req[r].results) :
        req[r].results[i] = "Err" =>
            /\ i = Len(req[r].invoked)
            /\ req[r].pc = "done"
            /\ req[r].status = StatusInternalServerError

\* C1 witness: a dispatch stopped by a failing handler with handlers left over
C1_Witness ==
    \E r \in Reqs :
        /\ req[r].pc = "done"
        /\ req[r].status = StatusInternalServerError
        /\ Len(req[r].results) = 2
        /\ req[r].results[2] = "Err"
        /\ Len(handlers[DispatchKey(req[r])]) = 3

\* C2: handler ordering. The handlers invoked for a dispatch are an initial
\* segment of the list registered under its key, that list is in registration
\* order, and a handler is started only when every earlier one has returned,
\* so at most one handler of the dispatch is running.
C2_Ordering ==
    /\ \A k \in DOMAIN handlers : \A i, j \in 1..Len(handlers[k]) :
            i < j => handlers[k][i] < handlers[k][j]
    /\ \A r \in Reqs :
        LET q == req[r] IN
        /\ q.invoked # <<>> =>
              /\ DispatchKey(q) \in DOMAIN handlers
              /\ Len(q.invoked) <= Len(handlers[DispatchKey(q)])
              /\ q.invoked = SubSeq(handlers[DispatchKey(q)], 1, Len(q.invoked))
        /\ Len(q.invoked) = Len(q.results) + (IF q.pc = "await" THEN 1 ELSE 0)

\* C2 witness: three handlers of one dispatch have run to completion
C2_Witness ==
    \E r \in Reqs :
        /\ req[r].pc = "done"
        /\ req[r].status = StatusOK
        /\ Len(req[r].invoked) = 3

\* C3: a handler is invoked for a request only if the request carried a
\* signature header whose digest is the HMAC of its body under the secret.
C3_NoHandlerWithoutSignature ==
    \A r \in Reqs : req[r].invoked # <<>> => CorrectlySigned(req[r])

\* C3 witness: a handler has been invoked for a signed request
C3_Witness ==
    \E r \in Reqs : req[r].invoked # <<>> /\ CorrectlySigned(req[r])

\* C4: pipeline order. Classification of a request (successful or not) is
\* preceded by the successful verification of its signature.
C4_VerifyBeforeClassify ==
    \A r \in Reqs : \A i \in 1..Len(req[r].stages) :
        req[r].stages[i] \in {"classify_ok", "classify_err"} =>
            \E j \in 1..(i - 1) : req[r].stages[j] = "verify_ok"

\* the digest of the signature header is well formed but is not the HMAC of
\* the body under the secret
DigestMismatch(q) ==
    /\ IsSome(q.sig)
    /\ Unwrap(q.sig).text
    /\ Unwrap(q.sig).s.prefix = "sha256="
    /\ Unwrap(q.sig).s.hex
    /\ Unwrap(q.sig).s.bytes # HmacSha256(Secret, q.sent)

\* C5: a request whose signature digest does not match is answered 401,
\* whatever its event header and body.
C5_MismatchIs401 ==
    \A r \in Reqs :
        (req[r].pc = "done" /\ DigestMismatch(req[r])) =>
            req[r].status = StatusUnauthorized

\* the signature header is absent, unreadable, without prefix or not hex
MalformedSignature(q) ==
    \/ ~IsSome(q.sig)
    \/ ~Unwrap(q.sig).text
    \/ Unwrap(q.sig).s.prefix # "sha256="
    \/ ~Unwrap(q.sig).s.hex

\* C6 as stated: a missing or malformed event or signature header, or a body
\* that does not parse, is answered 400.
C6_MalformedIs400 ==
    \A r \in Reqs :
        (req[r].pc = "done" /\ (~WellFormed(req[r]) \/ MalformedSignature(req[r]))) =>
            req[r].status = StatusBadRequest

\* C6: a missing or unreadable event header or a body that does not parse is
\* answered 400; so is a classified request without a readable signature
\* header; a classified request whose signature header is present but lacks
\* the prefix or is not hex is answered 401.
C6_MalformedStatus ==
    \A r \in Reqs :
        LET q == req[r] IN
        q.pc = "done" =>
            /\ ~WellFormed(q) => q.status = StatusBadRequest
            /\ (WellFormed(q) /\ (~IsSome(q.sig) \/ ~Unwrap(q.sig).text)) =>
                  q.status = StatusBadRequest
            /\ (WellFormed(q) /\ IsSome(q.sig) /\ Unwrap(q.sig).text
                   /\ (Unwrap(q.sig).s.prefix # "sha256=" \/ ~Unwrap(q.sig).s.hex)) =>
                  q.status = StatusUnauthorized

\* C6 witness: a classified request with a prefixless signature, answered 401
C6_Witness ==
    \E r \in Reqs :
        /\ req[r].pc = "done"
        /\ WellFormed(req[r])
        /\ IsSome(req[r].sig)
        /\ Unwrap(req[r].sig).text
        /\ Unwrap(req[r].sig).s.prefix # "sha256="
        /\ req[r].status = StatusUnauthorized

\* C7: a correctly signed, well-formed request for whose key the registry
\* holds no handler invokes no handler and is answered 200.
C7_NoHandlersIsOk ==
    \A r \in Reqs :
        LET q == req[r] IN
        (q.pc = "done" /\ CorrectlySigned(q) /\ WellFormed(q)
            /\ DispatchKey(q) \notin DOMAIN handlers) =>
                /\ q.invoked = <<>>
                /\ q.status = StatusOK

\* C7 witness: such a request answered 200 while other keys have handlers
C7_Witness ==
    \E r \in Reqs :
        /\ req[r].pc = "done"
        /\ CorrectlySigned(req[r])
        /\ WellFormed(req[r])
        /\ DispatchKey(req[r]) \notin DOMAIN handlers
        /\ handlers # <<>>
        /\ req[r].status = StatusOK

-----------------------------------------------------------------------------
(* Properties of the installation token cache *)

\* the token's expires_at if present, created_at + 1 hour otherwise
EffectiveExpiry(cached) ==
    IF IsSome(cached.token.expires_at)
    THEN Unwrap(cached.token.expires_at).t
    ELSE cached.created_at + 60

\* the cache holds an entry for id that is usable at time t
Usable(clients, id, t) ==
    id \in DOMAIN clients /\ t + 5 < EffectiveExpiry(clients[id])

\* a call starts: the step that takes caller c out of "idle"
Starts(c) == call[c].pc = "idle" /\ call'[c].pc # "idle"

\* the listing of a call holds its id with a URL that parses
Listed(k) ==
    /\ IsSome(k.listed)
    /\ k.id \in Unwrap(k.listed)
    /\ k.url = Some(TokensUrl)

\* the remote requests of a call: none on a hit; on a miss one listing, and
\* one token creation exactly when the listing succeeded and holds the id
\* with a usable token URL
CallRequests(k) ==
    /\ k.hit => (k.listReqs = 0 /\ k.tokenReqs = 0 /\ k.pc = "done")
    /\ (k.pc # "idle" /\ ~k.hit) => k.listReqs = 1
    /\ k.tokenReqs = (IF Listed(k) THEN 1 ELSE 0)
    /\ (k.pc = "done" /\ ~k.hit /\ Unwrap(k.result).ok) => k.tokenReqs = 1

\* C8: cache reuse rule. A call returns the cached client, without a remote
\* request, exactly when the cache holds an entry for the id with
\* now + 5 minutes < effective expiry; in every other case it starts the
\* creation path with one list-installations request, followed by one
\* token-creation request when the listing succeeds and contains the id
\* with a token URL that parses.
C8_CacheReuse ==
    /\ [][\A c \in Callers : Starts(c) =>
            IF Usable(installation_clients, call'[c].id, now)
            THEN /\ call'[c].pc = "done"
                 /\ call'[c].hit
                 /\ call'[c].result =
                        Some([ok |-> TRUE,
                              v |-> installation_clients[call'[c].id].client])
            ELSE /\ call'[c].pc = "list"
                 /\ ~call'[c].hit]_vars
    /\ [](\A c \in Callers : CallRequests(call[c]))

\* C8 witness: a call is answered from an entry inserted at this very
\* instant by the other caller, one token having been created in all
C8_Witness ==
    \E c, d \in Callers :
        /\ c # d
        /\ call[c].pc = "done" /\ call[c].hit
        /\ call[d].pc = "done" /\ ~call[d].hit /\ call[d].id = call[c].id
        /\ call[d].created_at = now
        /\ Unwrap(call[c].result).v = Unwrap(call[d].result).v
        /\ tokensMinted = 1

\* C8 as stated, second half: a call that does not return the cached client
\* performs a token-creation request.
C8_MissCreatesToken ==
    \A c \in Callers :
        (call[c].pc = "done" /\ ~call[c].hit) => call[c].tokenReqs = 1

\* C9: check-then-act race. Whenever a caller's cache write happens it
\* succeeds, the cache then holds under the id exactly the entry that caller
\* built (client, token and created_at of its own token) with every other
\* entry untouched, and the caller receives the client of its own token;
\* every entry of the cache is such a whole entry.
C9_RaceLastWriteWins ==
    /\ [][\A c \in Callers :
            (call[c].pc = "insert" /\ call'[c].pc = "done") =>
                LET tok == Unwrap(call[c].token)
                    own == [client |-> tok.token, token |-> tok,
                            created_at |-> call[c].created_at]
                IN  /\ installation_clients' =
                           [i \in DOMAIN installation_clients \cup {call[c].id} |->
                               IF i = call[c].id THEN own ELSE installation_clients[i]]
                    /\ call'[c].result = Some([ok |-> TRUE, v |-> tok.token])]_vars
    /\ [](\A c \in Callers : call[c].pc = "insert" => ENABLED CacheInsert(c))
    /\ [](\A id \in DOMAIN installation_clients :
            /\ installation_clients[id].client = installation_clients[id].token.token
            /\ installation_clients[id].token.installation = id)

\* C9 witness: both callers missed, minted different tokens for the same id
\* and wrote; the cache holds the entry of the token minted first, whose
\* write came last
C9_Witness ==
    /\ call[1].pc = "done" /\ call[2].pc = "done"
    /\ call[1].id = call[2].id
    /\ ~call[1].hit /\ ~call[2].hit
    /\ Unwrap(call[1].result).ok /\ Unwrap(call[2].result).ok
    /\ Unwrap(call[1].result).v = 1
    /\ Unwrap(call[2].result).v = 2
    /\ call[1].id \in DOMAIN installation_clients
    /\ installation_clients[call[1].id] =
           [client |-> 1, token |-> Unwrap(call[1].token),
            created_at |-> call[1].created_at]

\* C10: a call for an id that the listing does not contain fails with the
\* not-found error without a token-creation request, and no entry is ever
\* cached under such an id.
C10_NotFound ==
    /\ \A c \in Callers :
          (IsSome(call[c].listed) /\ call[c].id \notin Unwrap(call[c].listed)) =>
              /\ call[c].pc = "done"
              /\ call[c].result = Some([ok |-> FALSE, v |-> "not found"])
              /\ call[c].tokenReqs = 0
    /\ \A id \in DOMAIN installation_clients : id \in RemoteInstallations

\* C10 witness: a call for the id that is not installed has failed
C10_Witness ==
    \E c \in Callers :
        /\ call[c].pc = "done"
        /\ call[c].id \notin RemoteInstallations
        /\ IsSome(call[c].listed)
        /\ ~Unwrap(call[c].result).ok

\* C11 as stated: no retries. A request in flight, the list request or the
\* token request of a call, has not been sent more than once.
C11_NoRetries ==
    \A c \in Callers : call[c].pc \in {"list", "post"} => call[c].retries = 0

\* C11: bounded retries and no partial effect on failure. A call makes at
\* most one list call and one token-creation call, each re-sent at most
\* RetryCount times; a call fails only out of one of these two, the step in
\* which it fails leaves the cache as it is, and the cache changes only in
\* the write of a call that succeeds or in a clear.
C11_FailureLeavesCache ==
    /\ [](\A c \in Callers :
            /\ call[c].listReqs <= 1
            /\ call[c].tokenReqs <= 1
            /\ call[c].retries <= RetryCount
            /\ (call[c].pc = "done" /\ ~Unwrap(call[c].result).ok) =>
                  ~IsSome(call[c].token))
    /\ [][\A c \in Callers :
            (call[c].pc # "done" /\ call'[c].pc = "done"
                /\ ~Unwrap(call'[c].result).ok) =>
                    /\ call[c].pc \in {"list", "post"}
                    /\ installation_clients' = installation_clients]_vars
    /\ [][installation_clients' # installation_clients =>
            \/ call' = call
            \/ \E c \in Callers :
                  /\ call[c].pc = "insert"
                  /\ call'[c].pc = "done"
                  /\ Unwrap(call'[c].result).ok]_vars

\* C11 witness: a call failed at its token request while the cache holds an
\* expired entry for its id
C11_Witness ==
    \E c \in Callers :
        /\ call[c].pc = "done"
        /\ ~Unwrap(call[c].result).ok
        /\ call[c].tokenReqs = 1
        /\ call[c].id \in DOMAIN installation_clients
        /\ is_expired(installation_clients[call[c].id], now)

\* the arguments of clear_installation_cache
ClearArgs == {None} \cup {Some(i) : i \in InstallationIds}

\* C12: clearing with Some(id) yields the cache without id and with every
\* other entry as it was, which is the same cache when id is absent;
\* clearing with None yields the empty cache; and a step that changes the
\* cache without being a caller's write is such a clear, and changes neither
\* a call nor the number of tokens issued (no remote request).
C12_ClearFrame ==
    /\ [](\A id \in InstallationIds :
            LET cleared == ClearedCache(installation_clients, Some(id))
            IN  /\ DOMAIN cleared = DOMAIN installation_clients \ {id}
                /\ \A i \in DOMAIN cleared : cleared[i] = installation_clients[i]
                /\ id \notin DOMAIN installation_clients =>
                      cleared = installation_clients)
    /\ [](ClearedCache(installation_clients, None) = <<>>)
    /\ [][(installation_clients' # installation_clients
             /\ \A c \in Callers : call[c].pc # "insert" \/ call'[c].pc # "done") =>
                /\ call' = call
                /\ tokensMinted' = tokensMinted
                /\ \E arg \in ClearArgs :
                      installation_clients' = ClearedCache(installation_clients, arg)
                /\ \/ installation_clients' = <<>>
                   \/ \E id \in DOMAIN installation_clients :
                         /\ DOMAIN installation_clients' =
                                DOMAIN installation_clients \ {id}
                         /\ \A i \in DOMAIN installation_clients' :
                               installation_clients'[i] = installation_clients[i]]_vars

\* C12 witness: the entry of installation 1, whose writer still holds the
\* client it returned, has been cleared while installation 2 holds an entry
C12_Witness ==
    /\ DOMAIN installation_clients = {2}
    /\ \E c \in Callers :
          /\ call[c].pc = "done"
          /\ call[c].id = 1
          /\ ~call[c].hit
          /\ Unwrap(call[c].result).ok

\* C13: forced rotation. A call answered from the cache is never handed the
\* client of a token that was issued before a clear covering its id
\* completed and written to the cache after it.
C13_ForcedRotation ==
    \A c \in Callers :
        (call[c].pc = "done" /\ call[c].hit) =>
            Unwrap(call[c].result).v \notin preClear

-----------------------------------------------------------------------------
(* Properties of concurrent deliveries and of registration *)

\* the step in which a handler of request r returns an error
HandlerFails(r) ==
    /\ req[r].pc = "await"
    /\ req'[r].pc = "done"
    /\ req'[r].status = StatusInternalServerError

\* C14: handler-failure isolation. The step in which a handler of a request
\* returns an error changes neither the registry, nor a waiting registration,
\* nor the token cache, nor any other request; and what a request is answered
\* depends on its own handlers only: 500 exactly when one of its own handlers
\* returned an error, and 200 after a dispatch only when every handler
\* registered under its key has been invoked for it and returned Ok.
C14_FailureIsolated ==
    /\ [][\A r \in Reqs : HandlerFails(r) =>
            /\ handlers' = handlers
            /\ nextHandler' = nextHandler
            /\ writer' = writer
            /\ installation_clients' = installation_clients
            /\ \A s \in Reqs \ {r} : req'[s] = req[s]]_vars
    /\ [](\A r \in Reqs :
            req[r].pc = "done" =>
                (req[r].status = StatusInternalServerError
                    <=> \E i \in 1..Len(req[r].results) : req[r].results[i] = "Err"))
    /\ [][\A r \in Reqs :
            (req[r].pc = "await" /\ req'[r].pc = "done"
                /\ req'[r].status = StatusOK) =>
                    /\ req'[r].invoked = handlers[DispatchKey(req[r])]
                    /\ \A i \in 1..Len(req'[r].results) : req'[r].results[i] = "Ok"
                    /\ Len(req'[r].results) = Len(req'[r].invoked)]_vars

\* C14 witness: one request failed at the first of two handlers while the
\* other request, for the same key, ran both and is answered 200
C14_Witness ==
    \E r, s \in Reqs :
        /\ r # s
        /\ req[r].pc = "done" /\ req[r].status = StatusInternalServerError
        /\ Len(req[r].invoked) = 1
        /\ req[s].pc = "done" /\ req[s].status = StatusOK
        /\ DispatchKey(req[r]) = DispatchKey(req[s])
        /\ Len(req[s].invoked) = 2
        /\ req[s].invoked = handlers[DispatchKey(req[s])]

\* registry `after` is registry `before` with handler h appended at the end
\* of one event type's list, every other list and the earlier handlers of
\* that list being as before
AppendsOne(before, after, h) ==
    \E T \in DOMAIN after :
        LET old == IF T \in DOMAIN before THEN before[T] ELSE <<>>
        IN  /\ DOMAIN after = DOMAIN before \cup {T}
            /\ \A k \in DOMAIN before \ {T} : after[k] = before[k]
            /\ Len(after[T]) = Len(old) + 1
            /\ SubSeq(after[T], 1, Len(old)) = old
            /\ after[T][Len(after[T])] = h

\* C15: the registry is append-only. A step that changes the server's
\* registry appends the newly registered handler at the end of one event
\* type's list and changes nothing else in it; a step that changes the
\* TestApp's registry does the same or is the clear-all, which empties it.
C15_AppendOnly ==
    /\ [][handlers' # handlers => AppendsOne(handlers, handlers', nextHandler)]_vars
    /\ [][testHandlers' # testHandlers =>
            \/ AppendsOne(testHandlers, testHandlers', nextHandler)
            \/ testHandlers' = <<>>]_vars

\* C15 witness: a second handler has been appended to a list of the server's
\* registry, and the TestApp's registry has been cleared after a dispatch
\* took its copy of a list
C15_Witness ==
    /\ \E T \in DOMAIN handlers : Len(handlers[T]) = 2
    /\ testHandlers = <<>>
    /\ testRun.pc = "done"
    /\ testRun.list # <<>>

\* the places of the server's registry that hold handler h
Occurrences(h) ==
    {ki \in UNION {{<<k, i>> : i \in 1..Len(handlers[k])} : k \in DOMAIN handlers} :
        handlers[ki[1]][ki[2]] = h}

\* C16: registration loses nothing. The server's registry holds exactly the
\* handlers of the registrations that got the write guard so far, each once,
\* and each list is in the order in which they got it (handlers are numbered
\* at the push); a registration that had to wait for the guard is pushed,
\* under its own event type, in the step in which it stops waiting.
C16_NothingLost ==
    /\ [](\A h \in 1..(nextHandler - 1) : Cardinality(Occurrences(h)) = 1)
    /\ [](\A k \in DOMAIN handlers :
            /\ \A i \in 1..Len(handlers[k]) : handlers[k][i] \in 1..(nextHandler - 1)
            /\ \A i, j \in 1..Len(handlers[k]) : i < j => handlers[k][i] < handlers[k][j])
    /\ [][(IsSome(writer) /\ writer' # writer) =>
            /\ writer' = None
            /\ AppendsOne(handlers, handlers', nextHandler)
            /\ Unwrap(writer) \in DOMAIN handlers'
            /\ handlers'[Unwrap(writer)][Len(handlers'[Unwrap(writer)])] = nextHandler
            /\ nextHandler' = nextHandler + 1]_vars

\* C16 witness: three registrations under two event types are in the
\* registry, one of them pushed after a request for its event type had
\* looked the list up
C16_Witness ==
    /\ nextHandler = 4
    /\ Cardinality(DOMAIN handlers) = 2
    /\ \E r \in Reqs :
          /\ req[r].pc = "await"
          /\ Len(EventHandlers(req[r])) = 1
    /\ \E r \in Reqs :
          /\ req[r].pc = "done"
          /\ Len(req[r].invoked) = 1
          /\ req[r].status = StatusOK
          /\ Len(handlers[DispatchKey(req[r])]) = 2

\* C17: a handler that never completes blocks its own request only. Request
\* 2, none of whose handlers hangs, is answered once it has entered the
\* route, whatever request 1 does.
C17_OthersComplete == (req[2].pc = "event_mw") ~> (req[2].pc = "done")

-----------------------------------------------------------------------------
(* Properties of the signature check and of the pipeline's data *)

C19_BodyPreserved ==
    \A r \in Reqs :
        LET q == req[r] IN
        /\ (q.pc = "hmac_mw" /\ IsSome(q.classified)) =>
              /\ q.body = Unwrap(q.classified)
              /\ q.body = q.sent
              /\ q.body # EmptyBody
        /\ IsSome(q.verified) =>
              /\ q.body = Unwrap(q.verified)
              /\ q.body = q.sent
              /\ q.body # EmptyBody

\* C19 witness: a verified payload with an installation object has reached
\* the handler stage
C19_Witness ==
    \E r \in Reqs :
        /\ req[r].pc = "handler"
        /\ req[r].classified = Some(InstallationBody(5))
        /\ req[r].verified = Some(InstallationBody(5))
        /\ req[r].body = InstallationBody(5)

\* the id of the installation object of the payload that was sent, if any
PayloadInstallation(q) ==
    Unwrap(parse_webhook_event(Unwrap(q.evt).s, q.sent)).installation

\* C20: the installation id of the Context built for a request, which is the
\* one every handler invoked for it sees, is the id of the payload's
\* installation object, and None when the payload has none; a correctly
\* signed issues event with installation id 555 whose handlers all return Ok
\* is answered 200 with a Context holding 555.
C20_InstallationId ==
    \A r \in Reqs :
        LET q == req[r] IN
        /\ IsSome(q.ctx) => Unwrap(q.ctx).installation_id = PayloadInstallation(q)
        /\ q.invoked # <<>> => IsSome(q.ctx)
        /\ (/\ q.pc = "done"
            /\ CorrectlySigned(q)
            /\ q.evt = Some([text |-> TRUE, s |-> "issues"])
            /\ q.sent = InstallationBody(555)
            /\ \A i \in 1..Len(q.results) : q.results[i] = "Ok") =>
                /\ q.status = StatusOK
                /\ Unwrap(q.ctx).installation_id = Some(555)

\* C20 witness: the issues event with installation id 555 has been handled by
\* a handler and answered 200
C20_Witness ==
    \E r \in Reqs :
        /\ req[r].pc = "done"
        /\ req[r].status = StatusOK
        /\ req[r].evt = Some([text |-> TRUE, s |-> "issues"])
        /\ req[r].sent = InstallationBody(555)
        /\ req[r].invoked # <<>>
        /\ Unwrap(req[r].ctx).installation_id = Some(555)

-----------------------------------------------------------------------------
(* Properties of keys, contexts and the test harness *)

\* C21: the key the dispatcher derives for a classified event is the event's
\* type name, the key under which WebhookServer::on(name, h) stores h; so a
\* request reaches the handlers registered under its type name and no others.
C21_KeyIsTypeName ==
    \A r \in Reqs :
        IsSome(req[r].ctx) =>
            /\ ContextKind(Unwrap(req[r].ctx)) = Unwrap(req[r].evt).s
            /\ (req[r].pc = "dispatch" =>
                   EventHandlers(req[r]) = handlers[Unwrap(req[r].evt).s])

\* C22: a configuration value is produced only when exactly one of
\* private_key_path and private_key_base64 was supplied; supplying both or
\* neither yields an error.
C22_ExactlyOneSource ==
    (loaded.pc = "applied" /\ loaded.result.ok) =>
        (IsSome(loaded.path) # IsSome(loaded.base64))

\* the context a Context::installation_client call was made on
CallContext(c) == Unwrap(call[c].ctx)

ContextComplete(c) ==
    /\ IsSome(CallContext(c).github_client)
    /\ IsSome(CallContext(c).installation_id)

\* C23: Context::installation_client on a context without authenticator handle
\* or without installation id (every context of a server built with
\* new_default) returns Ok(None), having sent no request and left the token
\* cache alone; on a context with both it asks the client for that id and
\* returns the client's answer, Ok(client) as Ok(Some(client)) and an error
\* unchanged.
C23_ContextClient ==
    /\ [](\A c \in Callers :
            IsSome(call[c].ctx) =>
                /\ (CallContext(c).built = "new_default" => ~ContextComplete(c))
                /\ (~ContextComplete(c) =>
                       /\ call[c].pc = "returned"
                       /\ call[c].outer = Some([ok |-> TRUE, v |-> None])
                       /\ call[c].listReqs = 0
                       /\ call[c].tokenReqs = 0
                       /\ ~call[c].hit
                       /\ call[c].result = None)
                /\ (ContextComplete(c) =>
                       /\ call[c].id = Unwrap(CallContext(c).installation_id)
                       /\ (call[c].pc = "returned" =>
                              /\ IsSome(call[c].result)
                              /\ LET inner == Unwrap(call[c].result)
                                     outer == Unwrap(call[c].outer)
                                 IN  /\ outer.ok = inner.ok
                                     /\ (inner.ok => outer.v = Some(inner.v))
                                     /\ (~inner.ok => outer.v = inner.v))))
    /\ [][\A c \in Callers :
            (call[c].pc = "idle" /\ IsSome(call'[c].ctx) /\ ~ContextComplete(c)') =>
                /\ installation_clients' = installation_clients
                /\ tokensMinted' = tokensMinted]_vars

\* a handler of a server with a client, on an event without installation id,
\* has been answered Ok(None) while the cache holds a token
C23_Witness ==
    \E c \in Callers :
        /\ IsSome(call[c].ctx)
        /\ call[c].pc = "returned"
        /\ ~ContextComplete(c)
        /\ IsSome(CallContext(c).github_client)
        /\ call[c].outer = Some([ok |-> TRUE, v |-> None])
        /\ DOMAIN installation_clients # {}

\* the Context handle_webhook builds from the event the middleware attached
BuiltContext(q) ==
    LET g == Unwrap(q.ext)
    IN  [event |-> Some(g.event),
         installation_id |->
             IF IsSome(g.installation_id)
             THEN Some(AsU64(Unwrap(g.installation_id))) ELSE None,
         github_client |-> StateGithubClient]

\* C24: every handler of a dispatch is handed a Context equal to the one built
\* for the request (same event, installation id and client handle), whatever
\* the handlers before it did to theirs.
C24_SameContext ==
    /\ [](\A r \in Reqs :
            req[r].pc \in {"dispatch", "await"} =>
                req[r].ctx = Some(BuiltContext(req[r])))
    /\ [][\A r \in Reqs :
            /\ (req[r].pc = "dispatch" /\ req'[r].pc = "await") =>
                   req'[r].copy = Some(BuiltContext(req[r]))
            /\ (req[r].pc = "await" /\ req'[r].pc \in {"await", "dispatch"}) =>
                   req'[r].ctx = req[r].ctx]_vars

\* the first handler has changed its Context and returned; the second is next
C24_Witness ==
    \E r \in Reqs :
        /\ req[r].pc = "dispatch"
        /\ req[r].idx = 2
        /\ IsSome(req[r].copy)
        /\ req[r].copy # req[r].ctx
        /\ ~IsSome(Unwrap(req[r].copy).event)

\* a correctly signed, well-formed request whose event header names a type
\* outside the known ones
UnknownTyped(q) ==
    /\ CorrectlySigned(q)
    /\ WellFormed(q)
    /\ Unwrap(q.evt).s \notin KnownEventTypes

\* C25: a correctly signed request with an unrecognized event type is
\* classified as an event of unknown kind carrying the header's name and goes
\* through the dispatch like any other: it is never answered 400 or 401, and
\* with no handler registered under its key it is answered 200.
C25_UnknownDispatched ==
    \A r \in Reqs :
        UnknownTyped(req[r]) =>
            /\ (IsSome(req[r].ext) =>
                   /\ ~Unwrap(req[r].ext).event.kind.known
                   /\ Unwrap(req[r].ext).event.kind.name = Unwrap(req[r].evt).s)
            /\ (req[r].pc = "done" =>
                   /\ IsSome(req[r].ctx)
                   /\ ContextKind(Unwrap(req[r].ctx)) = JsonString(Unwrap(req[r].evt).s)
                   /\ req[r].status \in {StatusOK, StatusInternalServerError}
                   /\ (req[r].results = <<>> => req[r].status = StatusOK)
                   /\ (req[r].status = StatusInternalServerError =>
                          req[r].results[Len(req[r].results)] = "Err"))

\* a signed "zzz" event has been answered 200 while handlers of other types
\* are registered
C25_Witness ==
    \E r \in Reqs :
        /\ UnknownTyped(req[r])
        /\ req[r].pc = "done"
        /\ req[r].status = StatusOK
        /\ req[r].invoked = <<>>
        /\ DOMAIN handlers # {}

\* the handlers a TestApp holds under an event type, in registration order
Registered(event_type) ==
    IF event_type \in DOMAIN testHandlers THEN testHandlers[event_type] ELSE <<>>

\* C26 as stated: when handle_context returns, every handler registered under
\* the event type has been invoked.
C26_EveryHandlerInvoked ==
    testRun.pc = "done" => testRun.invoked = testRun.list

\* C26, amended: handle_context(T, ctx) takes the handlers registered under T
\* at the call and invokes them in registration order, each at most once, up
\* to and including the first that returns an error, all of them when none
\* fails; it invokes no handler of another type, and with none under T it
\* returns Ok having invoked nothing.
C26_InvokedPrefix ==
    /\ [][(testRun.pc = "idle" /\ testRun'.pc # "idle") =>
              testRun'.list = Registered(testRun'.event_type)]_vars
    /\ [](/\ testRun.invoked = SubSeq(testRun.list, 1, Len(testRun.invoked))
          /\ \A i, j \in 1..Len(testRun.invoked) :
                 testRun.invoked[i] = testRun.invoked[j] => i = j
          /\ (testRun.pc = "done" =>
                 LET n == Len(testRun.results)
                 IN  /\ Len(testRun.invoked) = n
                     /\ \A i \in 1..(n - 1) : testRun.results[i] = "Ok"
                     /\ ((n = 0 \/ testRun.results[n] = "Ok") =>
                            testRun.invoked = testRun.list)
                     /\ (testRun.list = <<>> =>
                            testRun.invoked = <<>> /\ testRun.returned = "Ok")))

\* both handlers under one type have run and returned Ok while the other type
\* has a handler too
C26_Witness ==
    /\ testRun.pc = "done"
    /\ Len(testRun.list) = 2
    /\ testRun.invoked = testRun.list
    /\ testRun.results = <<"Ok", "Ok">>
    /\ \E other \in DOMAIN testHandlers :
           other # testRun.event_type /\ testHandlers[other] # <<>>

\* C27: a TestApp dispatch returns Err exactly when an invoked handler
\* returned an error; that handler is the last one invoked; no step of a
\* dispatch changes the registered handlers; and the dispatch after a failed
\* one takes the registered handlers and starts with the first as usual.
C27_ErrorPropagation ==
    /\ [](testRun.pc = "done" =>
            /\ (testRun.returned = "Err" <=>
                   \E i \in 1..Len(testRun.results) : testRun.results[i] = "Err")
            /\ \A i \in 1..Len(testRun.results) :
                   testRun.results[i] = "Err" =>
                       i = Len(testRun.results) /\ Len(testRun.invoked) = i)
    /\ [][testRun' # testRun => testHandlers' = testHandlers]_vars
    /\ [][(testRun.pc = "idle" /\ testRun.prev = "Err" /\ testRun'.pc # "idle") =>
              /\ testRun'.list = Registered(testRun'.event_type)
              /\ testRun'.results = <<>>
              /\ (testRun'.list # <<>> =>
                     testRun'.pc = "run" /\ testRun'.invoked = <<testRun'.list[1]>>)]_vars

\* after a dispatch that returned Err, the next one on the same TestApp has
\* run both registered handlers and returned Ok
C27_Witness ==
    /\ testRun.pc = "done"
    /\ testRun.prev = "Err"
    /\ testRun.returned = "Ok"
    /\ Len(testRun.list) = 2
    /\ testRun.invoked = Registered(testRun.event_type)

\* the handlers handle_webhook runs for the request in slot r
ProductionList(r) ==
    IF ContextKind(Unwrap(req[r].ctx)) \in DOMAIN handlers
    THEN handlers[ContextKind(Unwrap(req[r].ctx))]
    ELSE <<>>

\* C28: with the same registrations made on both, TestApp::handle_event runs
\* for an event the list of handlers that handle_webhook runs for it, for
\* events of every type (so that, handler for handler, the same ones are
\* invoked in the same order and Err is returned exactly when 500 is answered).
C28_SameHandlers ==
    [][\A r \in Reqs :
          (/\ req[r].pc = "done"
           /\ IsSome(req[r].ctx)
           /\ req'[r] = req[r]
           /\ handlers = testHandlers
           /\ testRun.pc = "idle"
           /\ testRun'.pc # "idle") =>
              testRun'.list = ProductionList(r)]_vars

\* the (method, path) pairs the mock methods use, and one that none uses
MockPairs ==
    {<<q.method, q.path>> :
        q \in {MockRequest(api, "test/repo", 42, "Test") :
                 api \in {"create_issue_comment", "update_issue",
                          "add_labels_to_issue", "get_repository"}}}
    \cup {<<"DELETE", "/test">>}

\* C29: a mock API method appends exactly one (method, path, body) record at
\* the end of the call log and returns the response set under "METHOD:path",
\* or its built-in answer when none is set; call_count(m, p) is the number of
\* records with that method and path and was_called(m, p) holds iff it is
\* positive; set_response leaves the call log as it is.
C29_CallLog ==
    /\ [](\A pair \in MockPairs :
            /\ call_count(mock.calls, pair[1], pair[2]) =
                   Cardinality({i \in 1..Len(mock.calls) :
                                   /\ mock.calls[i].method = pair[1]
                                   /\ mock.calls[i].path = pair[2]})
            /\ was_called(mock.calls, pair[1], pair[2]) <=>
                   call_count(mock.calls, pair[1], pair[2]) > 0)
    /\ [][/\ mock'.last # mock.last \/ Len(mock'.calls) > Len(mock.calls) =>
              /\ Len(mock'.calls) = Len(mock.calls) + 1
              /\ SubSeq(mock'.calls, 1, Len(mock.calls)) = mock.calls
              /\ LET record == mock'.calls[Len(mock'.calls)]
                     key == record.method \o ":" \o record.path
                 IN  /\ <<record.method, record.path>> \in MockPairs
                     /\ IsSome(mock'.last)
                     /\ IF key \in DOMAIN mock.responses
                        THEN Unwrap(mock'.last) = mock.responses[key]
                        ELSE Unwrap(mock'.last).builtin
          /\ mock'.responses # mock.responses => mock'.calls = mock.calls]_vars

\* the same comment call made twice, before and after a response was set for
\* it, with another call in between: the log holds the three in order and the
\* last answer is the response that was set
C29_Witness ==
    /\ Len(mock.calls) = 3
    /\ call_count(mock.calls, "POST", "/repos/test/repo/issues/42/comments") = 2
    /\ mock.calls[2].method = "GET"
    /\ mock.calls[1].body # mock.calls[3].body
    /\ "POST:/repos/test/repo/issues/42/comments" \in DOMAIN mock.responses
    /\ IsSome(mock.last)
    /\ ~Unwrap(mock.last).builtin

\* a caller between the lookup and the insert: its remote calls are under way
\* or its new client awaits the write lock
InFlight(c) == call[c].pc \in {"list", "post", "insert"}

-----------------------------------------------------------------------------
(* Properties of check order, lock scope and identifiers *)

\* C31: verify_hmac_sha256 answers the prefix error for a header without
\* "sha256=" whatever follows, the hex error for a prefixed header that is not
\* hex whatever the digest, and compares digests only for a prefixed hex
\* header; and the body of a request without signature header is never read.
C31_ChecksOrdered ==
    \A r \in Reqs :
        /\ (IsSome(req[r].sig) /\ Unwrap(req[r].sig).text) =>
               LET signature == Unwrap(req[r].sig).s
                   verdict == verify_hmac_sha256(signature, req[r].sent, Secret)
               IN  /\ signature.prefix # "sha256=" => verdict = ErrPrefix
                   /\ (signature.prefix = "sha256=" /\ ~signature.hex) => verdict = ErrHex
                   /\ verdict \in {VerifyOk, ErrMismatch} =>
                          signature.prefix = "sha256=" /\ signature.hex
        /\ (req[r].pc # "idle" /\ ~IsSome(req[r].sig)) =>
               /\ req[r].classified = None
               /\ req[r].verified = None
               /\ (req[r].pc = "done" => req[r].status = StatusBadRequest)

\* C32: the registry does not change while a dispatch is between its lookup
\* and the return of its last handler, so a registration made meanwhile
\* completes only once no dispatch is in progress; the handlers a dispatch
\* has invoked are the first ones of the list it looked up, in order, and a
\* dispatch that ends has invoked no handler outside that list.
C32_ReadLockHeld ==
    /\ [][handlers' # handlers => Readers = {}]_vars
    /\ [](\A r \in Readers :
            /\ req[r].invoked = SubSeq(EventHandlers(req[r]), 1, Len(req[r].invoked))
            /\ Len(req[r].invoked) = IF req[r].pc = "await" THEN req[r].idx
                                     ELSE req[r].idx - 1)
    /\ [][\A r \in Readers :
            req'[r].pc = "done" =>
                /\ req'[r].invoked = SubSeq(EventHandlers(req[r]), 1, req[r].idx)
                /\ (req'[r].status = StatusOK => req'[r].invoked = EventHandlers(req[r]))]_vars

\* a registration under the type of a dispatch whose last handler is running
\* is suspended, while the other request has been answered
C32_Witness ==
    /\ IsSome(writer)
    /\ \E r, s \in Reqs :
          /\ req[r].pc = "await"
          /\ Unwrap(writer) = ContextKind(Unwrap(req[r].ctx))
          /\ req[r].idx = Len(EventHandlers(req[r]))
          /\ req[r].idx = 2
          /\ req[s].pc = "done"
          /\ req[s].status = StatusOK

C34_OkAfterAllHandlers ==
    /\ [][\A r \in Reqs :
            (req[r].pc # "done" /\ req'[r].pc = "done" /\ req'[r].status = StatusOK) =>
                LET key == ContextKind(Unwrap(req'[r].ctx))
                    registered == IF key \in DOMAIN handlers THEN handlers[key] ELSE <<>>
                IN  /\ handlers' = handlers
                    /\ req'[r].invoked = registered
                    /\ Len(req'[r].results) = Len(registered)
                    /\ \A i \in 1..Len(registered) : req'[r].results[i] = "Ok"]_vars
    /\ [](\A r \in Reqs :
            /\ req[r].pc = "await" =>
                   /\ req[r].status = 0
                   /\ Len(req[r].invoked) = Len(req[r].results) + 1
            /\ req[r].pc = "done" =>
                   /\ req[r].status # 0
                   /\ Len(req[r].invoked) = Len(req[r].results))

\* a request has been answered 200 after both handlers under its key returned
\* Ok, a third handler being registered under another key
C34_Witness ==
    \E r \in Reqs :
        /\ req[r].pc = "done"
        /\ req[r].status = StatusOK
        /\ req[r].results = <<"Ok", "Ok">>
        /\ req[r].invoked = handlers[DispatchKey(req[r])]
        /\ nextHandler = 4
        /\ Cardinality(DOMAIN handlers) = 2

\* C35: for every id an unsigned integer of the width can hold, the upper half
\* included, the installation id of the Context is the id of the payload's
\* installation object, the signed value carried in between being that id
\* reduced modulo 2^IdBits into the signed range.
C35_IdLossless ==
    \A r \in Reqs :
        LET q == req[r] IN
        /\ IsSome(q.ext) =>
              LET carried == Unwrap(Unwrap(q.ext).installation_id)
              IN  /\ carried \in (0 - 2 ^ (IdBits - 1))..(2 ^ (IdBits - 1) - 1)
                  /\ (carried - q.sent[2]) % (2 ^ IdBits) = 0
        /\ IsSome(q.ctx) =>
              /\ Unwrap(q.ctx).installation_id = Some(q.sent[2])
              /\ Unwrap(q.ctx).installation_id = PayloadInstallation(q)

\* the largest id has gone through as -1 and is in the Context unchanged
C35_Witness ==
    \E r \in Reqs :
        /\ req[r].pc = "done"
        /\ req[r].status = StatusOK
        /\ req[r].sent = InstallationBody(2 ^ IdBits - 1)
        /\ Unwrap(req[r].ext).installation_id = Some(0 - 1)
        /\ Unwrap(req[r].ctx).installation_id = Some(2 ^ IdBits - 1)

\* C36: the entry stored under installation id k holds a token issued to a
\* token request for installation k, with the client built from that token,
\* and a step of a call for installation k leaves the entry of every other
\* installation id as it was: not added, not replaced, not removed.
C36_EntriesMatchKey ==
    /\ [](\A k \in DOMAIN installation_clients :
             /\ installation_clients[k].token.installation = k
             /\ installation_clients[k].client = installation_clients[k].token.token)
    /\ [][\A c \in Callers :
             call'[c] # call[c] =>
                 \A i \in InstallationIds \ {call[c].id} :
                     /\ (i \in DOMAIN installation_clients')
                            <=> (i \in DOMAIN installation_clients)
                     /\ i \in DOMAIN installation_clients =>
                            installation_clients'[i] = installation_clients[i]]_vars

\* a call for the second installation has written its entry next to the
\* entry of the first, which is still the one written before
C36_Witness ==
    \E c \in Callers :
        /\ call[c].pc = "done"
        /\ call[c].id = 2
        /\ DOMAIN installation_clients = {1, 2}
        /\ installation_clients[1].token.token = 1
        /\ installation_clients[2].token.token = 2
        /\ installation_clients[2].token.installation = 2
        /\ Unwrap(call[c].result).ok

\* C37: every key of the server's handler registry, and of the TestApp's,
\* maps to a list of at least one handler, so that a key is absent exactly
\* when the list the dispatcher finds for it has no handler to run.
C37_NoEmptyList ==
    /\ \A k \in DOMAIN handlers : Len(handlers[k]) >= 1
    /\ \A k \in DOMAIN testHandlers : Len(testHandlers[k]) >= 1
    /\ \A r \in Reqs :
          IsSome(req[r].ctx) =>
              ((ContextKind(Unwrap(req[r].ctx)) \notin DOMAIN handlers)
                   <=> (ProductionList(r) = <<>>))
    /\ \A t \in TestEventTypes : (t \notin DOMAIN testHandlers) <=> (Registered(t) = <<>>)

\* two keys of the server's registry hold one handler each, the TestApp's
\* registry is empty again after a clear, and a delivery whose key is absent
\* was answered 200 with no handler run
C37_Witness ==
    /\ Cardinality(DOMAIN handlers) = 2
    /\ \A k \in DOMAIN handlers : Len(handlers[k]) = 1
    /\ testHandlers = <<>>
    /\ nextHandler = 4
    /\ \E r \in Reqs :
          /\ req[r].pc = "done"
          /\ req[r].status = StatusOK
          /\ IsSome(req[r].ctx)
          /\ ContextKind(Unwrap(req[r].ctx)) \notin DOMAIN handlers
          /\ req[r].invoked = <<>>

====
